---------------------------- MODULE Spec2Model ----------------------------
(***************************************************************************)
(* UkiModbusManager: a bridge between Modbus-RTU actuator boards on two    *)
(* serial buses ("left"/"right") and a UDP command/telemetry channel.      *)
(*                                                                         *)
(* The module models UkiModbus (one transport per bus) and                 *)
(* UkiModbusManager (the poll loop, the write queues, the heartbeat and    *)
(* the UDP framing), together with the commands that ThreadManager         *)
(* (UkiArticulation.py) sends to the manager between two ticks.            *)
(*                                                                         *)
(* One call of main_poll_loop is a sequence of forced steps, one per bus   *)
(* call or receive call, because each of those blocks and may end with a   *)
(* value, with no response or with an exception that leaves the loop.      *)
(***************************************************************************)
EXTENDS Integers, Sequences, FiniteSets, TLC

(***************************************************************************)
(* Program constants.                                                      *)
(***************************************************************************)
RESET_LOOPS == 3
MAX_RETRIES == 3
INCOMING_MSG_HEARTBEAT_TIMEOUT == 5
SEND_EVERY_WRITE == TRUE
MAX_MOTOR_SPEED == 60
HEARTBEAT_ADDRESS == 240
RESET_MAGIC == 20560            \* 0x5050

MB_BRIDGE_CURRENT == 100
MB_BOARD_TEMPERATURE == 104
MB_MOTOR_SETPOINT == 200
MB_MOTOR_ACCEL == 202
MB_CURRENT_LIMIT_INWARD == 203
MB_CURRENT_LIMIT_OUTWARD == 204
MB_EXTENSION_LIMIT_OUTWARD == 206
MB_POSITION_ENCODER_SCALING == 207
MB_ESTOP == 208
MB_RESET_ESTOP == 209
MB_EXTENSION == 299
MB_INWARD_ENDSTOP_STATE == 303
MB_INWARD_ENDSTOP_COUNT == 305
MB_EXTENSION_TRIPS_OUTWARD == 310
READ_ERROR_START == 10000
READ_ERROR_END == 10001
WRITE_ERROR == 10002

Ports == {"left", "right"}

(***************************************************************************)
(* Bounds of the model.                                                    *)
(***************************************************************************)
MaxLoops == 2         \* script_loops of the console
ScriptRows == 1       \* rows of the script after its header
MaxAge == 6          \* the clock stops MaxAge seconds after the last message
MaxDatagrams == 1    \* datagrams the socket hands out in one tick
MaxDirect == 1       \* triples waiting on the direct command queue
MaxFaults == 1       \* bus calls that end with no response in one run
MaxQueue == 1        \* entries a command of the console adds to a queue between ticks
MaxAttempts == 5     \* bus attempts followed inside one access_regs call

(***************************************************************************)
(* Python values.  None is the missing response and the invalidated shadow *)
(* entry; Unset is the [] a defaultdict(list) gives for a key never set.   *)
(* They are numbers no register, command or configuration value takes.     *)
(***************************************************************************)
None == -100001
Unset == -100002
Missing == -100003     \* a key the configuration of an actuator does not hold
NoPort == "None"       \* get_port_for_address returning None
NoResponse == <<>>     \* write_reg returning None

Min(a, b) == IF a < b THEN a ELSE b
Range(s) == {s[i] : i \in 1..Len(s)}

(***************************************************************************)
(* Register codec: int.to_bytes(2, 'little') and int.from_bytes.           *)
(***************************************************************************)
\* entry.to_bytes(2, byteorder='little'): unsigned, for 0 <= n <= 65535
ToBytes(n) == <<n % 256, n \div 256>>

\* entry.to_bytes(2, byteorder='little', signed=True), for -32768 <= n <= 32767
ToBytesSigned(n) == ToBytes(IF n < 0 THEN n + 65536 ELSE n)

\* packet[a:b] of Python, a and b counted from 0
Slice(packet, a, b) == SubSeq(packet, a + 1, Min(b, Len(packet)))

RECURSIVE FromBytes(_)
\* int.from_bytes(bs, byteorder='little', signed=False)
FromBytes(bs) ==
    IF Len(bs) = 0 THEN 0 ELSE bs[1] + 256 * FromBytes(Tail(bs))

RECURSIVE Pow256(_)
Pow256(n) == IF n = 0 THEN 1 ELSE 256 * Pow256(n - 1)

\* int.from_bytes(bs, byteorder='little', signed=True)
FromBytesSigned(bs) ==
    LET u == FromBytes(bs)
        m == Pow256(Len(bs))
    IN  IF Len(bs) > 0 /\ 2 * u >= m THEN u - m ELSE u

RECURSIVE Join(_)
\* b"".join([entry.to_bytes(2, byteorder='little') for entry in packet])
Join(packet) ==
    IF Len(packet) = 0 THEN <<>> ELSE ToBytes(packet[1]) \o Join(Tail(packet))

RECURSIVE JoinSigned(_)
\* the sender of Test_UkiModbusManager.py: every entry signed
JoinSigned(packet) ==
    IF Len(packet) = 0 THEN <<>>
    ELSE ToBytesSigned(packet[1]) \o JoinSigned(Tail(packet))


(***************************************************************************)
(* The configuration file.  An actuator is a record; a key the file does   *)
(* not hold for an actuator is Missing.  The file on disk is one of        *)
(* ConfigFiles, or cannot be read.                                         *)
(***************************************************************************)
Actuator(a, p, en, cin, cout, ext, scal, acc) ==
    [address |-> a, port |-> p, enabled |-> en,
     inwardCurrentLimit |-> cin, outwardCurrentLimit |-> cout,
     outwardExtensionLimit |-> ext, positionEncoderScaling |-> scal,
     acceleration |-> acc]

\* the file the manager is started with: one board on each bus, one disabled
CfgA == << Actuator(1, "Left", TRUE, 30, 40, 50, 5, 100),
           Actuator(2, "Right", TRUE, 30, 40, 50, Missing, 100),
           Actuator(3, "Left", FALSE, 30, 40, 50, 5, 100) >>

\* the same boards after an edit of one parameter of board 1
CfgB == << Actuator(1, "Left", TRUE, 30, 45, 50, 5, 100),
           Actuator(2, "Right", TRUE, 30, 40, 50, Missing, 100),
           Actuator(3, "Left", FALSE, 30, 40, 50, 5, 100) >>

ConfigFiles == {CfgA, CfgB}

\* what open() and yaml.safe_load make of the file on disk
FileStates ==
    [status : {"ok"}, actuators : ConfigFiles]
        \cup [status : {"FileNotFoundError", "ParserError"}, actuators : {<<>>}]

\* the exceptions read_board_config_file catches (lines 211-215); any other
\* that open() or yaml.safe_load raises leaves it
CaughtFileErrors == {"FileNotFoundError", "ParserError"}

\* a file in which board 1 is disabled, board 2 is no longer listed and
\* board 3 is enabled
CfgC == << Actuator(1, "Left", FALSE, 30, 40, 50, 5, 100),
           Actuator(3, "Left", TRUE, 30, 40, 50, 5, 100) >>

\* a file with no enabled actuator
CfgNone == << Actuator(1, "Left", FALSE, 30, 40, 50, 5, 100) >>

\* the files of a run in which the set of boards is edited, and what open()
\* and yaml.safe_load make of them: the scanner of yaml raises ScannerError,
\* which is not a ParserError
ReloadFiles == {CfgA, CfgC, CfgNone}
ReloadStates ==
    [status : {"ok"}, actuators : ReloadFiles]
        \cup [status : CaughtFileErrors \cup {"ScannerError"}, actuators : {<<>>}]

\* a file with three enabled boards, the third with an outward current limit
\* that its register does not hold
CfgD == << Actuator(1, "Left", TRUE, 30, 40, 50, 5, 100),
           Actuator(2, "Right", TRUE, 30, 40, 50, Missing, 100),
           Actuator(3, "Left", TRUE, 30, 45, 50, 5, 100) >>

\* files with one, two and three enabled boards
RoundFiles == {CfgC, CfgA, CfgD}

\* the keys update_board_config reconciles, with their registers, in its order
ConfigRegs ==
    << <<MB_CURRENT_LIMIT_INWARD, "inwardCurrentLimit">>,
       <<MB_CURRENT_LIMIT_OUTWARD, "outwardCurrentLimit">>,
       <<MB_EXTENSION_LIMIT_OUTWARD, "outwardExtensionLimit">>,
       <<MB_POSITION_ENCODER_SCALING, "positionEncoderScaling">>,
       <<MB_MOTOR_ACCEL, "acceleration">> >>

\* an actuator dictionary with no key at all: board_config = {}
NoActuator ==
    Actuator(Missing, "", FALSE, Missing, Missing, Missing, Missing, Missing)

VARIABLES
    pc,                   \* position of the worker in main_poll_loop
    crash,                \* the exception that left main_poll_loop, or "none"
    minor_poll_index,     \* position in the inner round robin (from 0)
    major_poll_index,     \* position in the full round robin (from 0)
    enabled_boards,       \* UkiModbusManager.enabled_boards
    board_config,         \* board_config['actuators']
    config_file,          \* what the configuration file holds on disk
    heartbeat_armed,
    msg_age,              \* time.time() - last_incoming_msg_time, in seconds
    udp_input_enabled,
    honour_accel_config,
    port_enabled,         \* UkiModbus.enabled of each port
    port_boards,          \* UkiModbus.enabled_boards of each port
    shadow_map,           \* UkiModbus.shadow_map of each port
    write_queue,          \* UkiModbus.write_queue of each port
    incoming_queue,       \* the direct command queue
    valid_msg_received,   \* local of process_incoming_packet
    rx,                   \* the datagrams recvfrom returned in this call
    flush_index,          \* position of flush_write_queue in enabled_boards
    written_offsets,      \* local of flush_write_queue
    flush_snapshot,       \* the write queues when flush_write_queue was entered
    sent,                 \* datagrams sent on the output socket in this tick
    bus_writes,           \* write_reg calls of this tick: <<address, offset, value>>
    fault_budget,         \* bus calls that may still end with no response
    send_every_write,     \* SEND_EVERY_WRITE as the module was loaded with it
    outgoing_queue,       \* packets put on the outgoing queue in this tick
    slept,                \* the last tick ended with the sleep of line 520
    hp_log,               \* boards of the last high priority reads, one per
                          \* enabled board at most
    full_log,             \* boards fully read in each minor sweep of this major cycle
    reread,               \* whether this tick re-read the configuration file, and the
                          \* ticks begun since it was last read
    tripped,              \* the heartbeat check of the last tick timed out, and no valid
                          \* frame, reset or UDP-disable came since
    playing,              \* ThreadManager.playing
    fault_active,         \* ThreadManager.fault_active
    piano_state,          \* local of uki_player_piano
    loops,                \* local: gui_config['script_loops']
    loop_count,           \* local
    board_names,          \* local: the script boards, by address
    row,                  \* rows of the script taken in this loop, -1 before
                          \* the script file is opened
    send_index,           \* the next uki_send_comms call of the state, 0 at
                          \* the top of the loop over the rows
    acc,                  \* one access_regs call followed attempt by attempt
    arg, res              \* argument and result of a function applied alone

tickVars == <<pc, crash, minor_poll_index, major_poll_index, enabled_boards,
              board_config, heartbeat_armed, msg_age, udp_input_enabled,
              honour_accel_config, port_enabled, port_boards, shadow_map,
              write_queue, incoming_queue, valid_msg_received, rx, flush_index,
              written_offsets, flush_snapshot, sent, bus_writes, fault_budget,
              send_every_write, outgoing_queue, slept, hp_log,
              full_log,
              reread,
              tripped,
              playing>>
sequencer == <<fault_active, piano_state, loops, loop_count, board_names,
               row, send_index>>
vars == <<tickVars, sequencer, config_file, acc, arg, res>>

(***************************************************************************)
(* UkiModbusManager: lookups and queueing.                                 *)
(***************************************************************************)
\* get_port_for_address: the first actuator of the configuration with the
\* address decides; no such actuator is an IndexError, a port that is
\* neither Left nor Right gives None
get_port_for_address(address) ==
    LET hits == SelectSeq(board_config, LAMBDA b : b.address = address)
    IN  IF Len(hits) = 0 THEN "IndexError"
        ELSE IF hits[1].port = "Left" THEN "left"
        ELSE IF hits[1].port = "Right" THEN "right"
        ELSE NoPort

\* the exception of get_port_for_address(address).write_queue[address] (or
\* .shadow_map[address]), "ok" when there is none
LookupError(address) ==
    LET p == get_port_for_address(address)
    IN  IF p = "IndexError" THEN "IndexError"
        ELSE IF p = NoPort THEN "AttributeError"
        ELSE IF address \notin port_boards[p] THEN "KeyError"
        ELSE "ok"

\* self.get_port_for_address(address).write_queue[address].append(entry) on
\* the queues st.wq; an exception is kept in st.err and ends what follows
AppendWrite(st, address, entry) ==
    IF st.err # "ok" THEN st
    ELSE IF LookupError(address) # "ok" THEN [st EXCEPT !.err = LookupError(address)]
    ELSE LET p == get_port_for_address(address)
         IN  [st EXCEPT !.wq[p][address] = Append(@, entry)]

RECURSIVE AppendAll(_, _, _)
\* for address in boards: ...write_queue[address].append(entry)
AppendAll(st, boards, entry) ==
    IF Len(boards) = 0 THEN st
    ELSE AppendAll(AppendWrite(st, Head(boards), entry), Tail(boards), entry)

\* estop_all_boards that puts its entry at the front of every queue
estop_all_boards_front(st) ==
    [st EXCEPT !.wq =
        [p \in DOMAIN st.wq |->
            [a \in DOMAIN st.wq[p] |->
                IF a \in Range(enabled_boards)
                THEN << <<MB_ESTOP, 1>> >> \o st.wq[p][a]
                ELSE st.wq[p][a]]]]

\* estop_all_boards that stops at the first board
estop_first_board(st) == AppendAll(st, SubSeq(enabled_boards, 1, 1), <<MB_ESTOP, 1>>)

estop_all_boards(st) == AppendAll(st, enabled_boards, <<MB_ESTOP, 1>>)

\* reset_all_boards that leaves the heartbeat as it is
reset_all_boards_armed(st) ==
    AppendAll(st, enabled_boards, <<MB_RESET_ESTOP, RESET_MAGIC>>)

reset_all_boards(st) ==
    LET q == AppendAll(st, enabled_boards, <<MB_RESET_ESTOP, RESET_MAGIC>>)
    IN  IF q.err # "ok" THEN q ELSE [q EXCEPT !.armed = FALSE]

\* sanity_check_command that lets every value through
sanity_check_none(write_offset, write_value) == <<write_offset, write_value>>

\* sanity_check_command without its elif branch
sanity_check_upper_only(write_offset, write_value) ==
    IF write_offset = MB_MOTOR_SETPOINT /\ write_value > MAX_MOTOR_SPEED
    THEN <<write_offset, MAX_MOTOR_SPEED>>
    ELSE <<write_offset, write_value>>

sanity_check_command(write_offset, write_value) ==
    IF write_offset = MB_MOTOR_SETPOINT
    THEN IF write_value > MAX_MOTOR_SPEED THEN <<write_offset, MAX_MOTOR_SPEED>>
         ELSE IF write_value < -MAX_MOTOR_SPEED THEN <<write_offset, -MAX_MOTOR_SPEED>>
         ELSE <<write_offset, write_value>>
    ELSE <<write_offset, write_value>>

\* the processing state of process_incoming_packet and its callees
ProcState == [wq |-> write_queue, armed |-> heartbeat_armed,
              valid |-> valid_msg_received, err |-> "ok"]

SetValid(st) == IF st.err # "ok" THEN st ELSE [st EXCEPT !.valid = TRUE]

\* ProcessPair that counts a broadcast pair it rejects as a valid message
ProcessPairBroadcastCounts(st, write_address, write_offset, write_value) ==
    IF write_address = 0
    THEN IF write_offset = MB_ESTOP
         THEN SetValid(estop_all_boards(st))
         ELSE IF write_offset = MB_RESET_ESTOP /\ write_value = RESET_MAGIC
         THEN SetValid(reset_all_boards(st))
         ELSE SetValid(st)
    ELSE LET cmd == sanity_check_command(write_offset, write_value)
         IN  SetValid(AppendWrite(st, write_address, cmd))

\* ProcessPair that accepts a broadcast reset of any value
ProcessPairAnyReset(st, write_address, write_offset, write_value) ==
    IF write_address = 0
    THEN IF write_offset = MB_ESTOP
         THEN SetValid(estop_all_boards(st))
         ELSE IF write_offset = MB_RESET_ESTOP
         THEN SetValid(reset_all_boards(st))
         ELSE st
    ELSE LET cmd == sanity_check_command(write_offset, write_value)
         IN  SetValid(AppendWrite(st, write_address, cmd))

\* one offset/value pair of a datagram for write_address (lines 323-344)
ProcessPair(st, write_address, write_offset, write_value) ==
    IF write_address = 0
    THEN IF write_offset = MB_ESTOP
         THEN SetValid(estop_all_boards(st))
         ELSE IF write_offset = MB_RESET_ESTOP /\ write_value = RESET_MAGIC
         THEN SetValid(reset_all_boards(st))
         ELSE st
    ELSE LET cmd == sanity_check_command(write_offset, write_value)
         IN  SetValid(AppendWrite(st, write_address, cmd))

\* line 313: the write address is the first two bytes, unsigned
DecodeAddress(incoming_packet) == FromBytes(Slice(incoming_packet, 0, 2))

RECURSIVE DecodePairs(_, _)
\* lines 322-325: for pos in range(2, len(incoming_packet), 4), the offset
\* unsigned and the value signed
DecodePairs(incoming_packet, pos) ==
    IF pos >= Len(incoming_packet) THEN <<>>
    ELSE << <<FromBytes(Slice(incoming_packet, pos, pos + 2)),
              FromBytesSigned(Slice(incoming_packet, pos + 2, pos + 4))>> >>
         \o DecodePairs(incoming_packet, pos + 4)

RECURSIVE ProcessPairs(_, _, _)
\* the loop of lines 322-344 over the pairs of a datagram
ProcessPairs(st, write_address, pairs) ==
    IF Len(pairs) = 0 \/ st.err # "ok" THEN st
    ELSE ProcessPairs(ProcessPair(st, write_address, Head(pairs)[1], Head(pairs)[2]),
                      write_address, Tail(pairs))

\* ProcessPacket that knows no heartbeat address
ProcessPacketNoHeartbeat(st, incoming_packet) ==
    IF ~udp_input_enabled THEN st
    ELSE IF Len(incoming_packet) % 2 # 0 THEN st
    ELSE LET write_address == DecodeAddress(incoming_packet)
         IN  IF write_address \notin (Range(enabled_boards) \cup {0}) THEN st
             ELSE ProcessPairs(st, write_address, DecodePairs(incoming_packet, 2))

\* ProcessPacket that takes the pairs of a frame whatever its address
ProcessPacketAnyAddress(st, incoming_packet) ==
    IF ~udp_input_enabled THEN st
    ELSE IF Len(incoming_packet) % 2 # 0 THEN st
    ELSE LET write_address == DecodeAddress(incoming_packet)
         IN  IF write_address = HEARTBEAT_ADDRESS THEN SetValid(st)
             ELSE ProcessPairs(st, write_address, DecodePairs(incoming_packet, 2))

\* ProcessPacket without the test of the length
ProcessPacketAnyLength(st, incoming_packet) ==
    IF ~udp_input_enabled THEN st
    ELSE LET write_address == DecodeAddress(incoming_packet)
         IN  IF write_address = HEARTBEAT_ADDRESS THEN SetValid(st)
             ELSE IF write_address \notin (Range(enabled_boards) \cup {0}) THEN st
             ELSE ProcessPairs(st, write_address, DecodePairs(incoming_packet, 2))

\* the body of the receive loop for one datagram (lines 305-346)
ProcessPacket(st, incoming_packet) ==
    IF ~udp_input_enabled THEN st
    ELSE IF Len(incoming_packet) % 2 # 0 THEN st
    ELSE LET write_address == DecodeAddress(incoming_packet)
         IN  IF write_address = HEARTBEAT_ADDRESS THEN SetValid(st)
             ELSE IF write_address \notin (Range(enabled_boards) \cup {0}) THEN st
             ELSE ProcessPairs(st, write_address, DecodePairs(incoming_packet, 2))


\* the player piano thread as ThreadManager.__init__ starts it; the locals
\* it has not bound yet are written as empty
SequencerIdle ==
    /\ fault_active = FALSE
    /\ piano_state = "IDLE"
    /\ loops = 0
    /\ loop_count = 0
    /\ board_names = <<>>
    /\ row = -1
    /\ send_index = 0

(***************************************************************************)
(* Shadow register maps: a defaultdict(list) per board.                    *)
(***************************************************************************)
\* shadow_map[address][offset], the default for a key never set included
ShadowGet(sm, address, offset) ==
    LET p == get_port_for_address(address)
    IN  IF offset \in DOMAIN sm[p][address] THEN sm[p][address][offset] ELSE Unset

\* ShadowSetRange that sets the first register only
ShadowSetFirst(sm, address, start, values) ==
    LET p == get_port_for_address(address)
        old == sm[p][address]
    IN  [sm EXCEPT ![p][address] =
            [o \in (DOMAIN old) \cup {start} |->
                IF o = start THEN values[1] ELSE old[o]]]

\* shadow_map[address][start + i - 1] = values[i] for every i
ShadowSetRange(sm, address, start, values) ==
    LET p == get_port_for_address(address)
        old == sm[p][address]
        new == [o \in (DOMAIN old) \cup (start..(start + Len(values) - 1)) |->
                   IF o >= start /\ o < start + Len(values)
                   THEN values[o - start + 1] ELSE old[o]]
    IN  [sm EXCEPT ![p][address] = new]

(***************************************************************************)
(* The bus.  What a board reports is not decided by this program: a read   *)
(* that is answered returns the registers of BoardRegister.  A call on a   *)
(* port ends with a response ("ok"), with no response after the retries    *)
(* ("none") or with an exception that access_regs raises again ("raise").  *)
(***************************************************************************)
\* the value a board holds at an offset: its configuration registers as the
\* first configuration file sets them, 0 elsewhere
BoardRegister(address, offset) ==
    LET hits == SelectSeq(CfgA, LAMBDA b : b.address = address)
        keys == SelectSeq(ConfigRegs, LAMBDA r : r[1] = offset)
    IN  IF Len(hits) = 0 \/ Len(keys) = 0 THEN 0
        ELSE IF hits[1][keys[1][2]] = Missing THEN 0 ELSE hits[1][keys[1][2]]

\* the tuple mb_conn.execute returns for a read of start_offset..end_offset
ReadResponse(address, start_offset, end_offset) ==
    [i \in 1..(end_offset - start_offset + 1) |->
        BoardRegister(address, start_offset + i - 1)]

\* the (offset, value) mb_conn.execute returns for a write of one register
WriteResponse(offset, value) == <<offset, value % 65536>>

\* how a call of read_regs or write_reg on the port of address may end
AccessOutcomes(address) ==
    IF ~port_enabled[get_port_for_address(address)] THEN {"none"}
    ELSE {"ok", "raise"} \cup (IF fault_budget > 0 THEN {"none"} ELSE {})

\* the failures still allowed after a call on the port of address ended
Spend(address, outcome) ==
    IF outcome = "none" /\ port_enabled[get_port_for_address(address)]
    THEN fault_budget - 1 ELSE fault_budget

(***************************************************************************)
(* main_poll_loop, step by step.                                           *)
(***************************************************************************)
constructed == <<enabled_boards, port_enabled, port_boards, send_every_write>>
standalone == <<acc, arg, res, sequencer>>

\* an exception leaves main_poll_loop; nothing catches it
Raise(cause) == pc' = "crashed" /\ crash' = cause
Goto(next) == pc' = next /\ crash' = crash

\* read_board_config_file: a file that cannot be read or parsed is logged
\* and the configuration kept
read_board_config_file ==
    IF config_file.status = "ok" THEN config_file.actuators ELSE board_config

\* a full round robin that counts as done after every minor sweep
full_round_robin_done_every_sweep(major, n) == major >= 1

\* line 479
full_round_robin_done(major, n) == major >= n

\* lines 472-487: round robin bookkeeping and the two addresses of the tick
Bookkeep ==
    /\ pc = "idle"
    /\ LET n == Len(enabled_boards)
           wrapped == minor_poll_index >= n
           major1 == IF wrapped THEN major_poll_index + 1 ELSE major_poll_index
           reload == full_round_robin_done(major1, n)
       IN  /\ minor_poll_index' = IF wrapped THEN 0 ELSE minor_poll_index
           /\ major_poll_index' = IF reload THEN 0 ELSE major1
           /\ board_config' = IF reload THEN read_board_config_file ELSE board_config
           /\ reread' = [done |-> reload,
                         ticks |-> IF reload THEN 1 ELSE reread.ticks + 1]
           /\ full_log' = IF reload THEN << <<>> >>
                          ELSE IF wrapped THEN Append(full_log, <<>>)
                          ELSE full_log
           /\ IF reload /\ config_file.status \notin CaughtFileErrors \cup {"ok"}
              THEN Raise(config_file.status)
              ELSE IF n = 0 THEN Raise("IndexError") ELSE Goto("recv")
    /\ UNCHANGED <<constructed, standalone, playing, tripped, outgoing_queue, slept, hp_log, config_file, heartbeat_armed, msg_age,
                   udp_input_enabled, honour_accel_config, shadow_map, write_queue,
                   incoming_queue, valid_msg_received, rx, flush_index,
                   written_offsets, flush_snapshot, sent, bus_writes, fault_budget>>

\* a full read cursor that stays on the first board
full_read_address_first == enabled_boards[1]

full_read_address == enabled_boards[major_poll_index + 1]

\* the local 'address' taken at the position of the full round robin
poll_address_major == enabled_boards[major_poll_index + 1]

poll_address == enabled_boards[minor_poll_index + 1]   \* the local 'address'

\* one recvfrom of process_incoming_packet that returns a datagram
RecvDatagram(incoming_packet) ==
    /\ pc = "recv"
    /\ Len(rx) < MaxDatagrams
    /\ LET st == ProcessPacket(ProcState, incoming_packet)
       IN  /\ write_queue' = st.wq
           /\ heartbeat_armed' = st.armed
           /\ valid_msg_received' = st.valid
           /\ tripped' = (tripped /\ ~st.valid)
           /\ IF st.err # "ok" THEN Raise(st.err) ELSE Goto("recv")
    /\ rx' = Append(rx, incoming_packet)
    /\ UNCHANGED <<constructed, standalone, playing, reread, full_log, outgoing_queue, slept, hp_log, config_file, minor_poll_index,
                   major_poll_index, board_config, msg_age, udp_input_enabled,
                   honour_accel_config, shadow_map, incoming_queue, flush_index,
                   written_offsets, flush_snapshot, sent, bus_writes, fault_budget>>

\* recvfrom raises BlockingIOError: process_incoming_packet returns, and
\* lines 490-492 arm the heartbeat when a valid message was received
RecvDone ==
    /\ pc = "recv"
    /\ heartbeat_armed' = (valid_msg_received \/ heartbeat_armed)
    /\ msg_age' = IF valid_msg_received THEN 0 ELSE msg_age
    /\ rx' = <<>>
    /\ Goto("direct")
    /\ UNCHANGED <<constructed, standalone, playing, tripped, reread, full_log, outgoing_queue, slept, hp_log, config_file, minor_poll_index,
                   major_poll_index, board_config, udp_input_enabled,
                   honour_accel_config, shadow_map, write_queue, incoming_queue,
                   valid_msg_received, flush_index, written_offsets,
                   flush_snapshot, sent, bus_writes, fault_budget>>

RECURSIVE DrainQueue(_, _)
\* process_incoming_queue: every triple is taken off the queue; a KeyError
\* is caught and the triple dropped, any other exception leaves the loop
DrainQueue(st, q) ==
    IF Len(q) = 0 \/ st.err # "ok" THEN [st |-> st, q |-> q]
    ELSE LET t == Head(q)
             cmd == sanity_check_command(t[2], t[3])
             try == AppendWrite(st, t[1], cmd)
         IN  DrainQueue(IF try.err = "KeyError" THEN st ELSE try, Tail(q))

\* lines 494-495
ProcessIncomingQueue ==
    /\ pc = "direct"
    /\ LET d == DrainQueue(ProcState, incoming_queue)
       IN  /\ write_queue' = d.st.wq
           /\ incoming_queue' = d.q
           /\ IF d.st.err # "ok" THEN Raise(d.st.err) ELSE Goto("heartbeat")
    /\ UNCHANGED <<constructed, standalone, playing, tripped, reread, full_log, outgoing_queue, slept, hp_log, config_file, minor_poll_index,
                   major_poll_index, board_config, heartbeat_armed, msg_age,
                   udp_input_enabled, honour_accel_config, shadow_map,
                   valid_msg_received, rx, flush_index, written_offsets,
                   flush_snapshot, sent, bus_writes, fault_budget>>

\* HeartbeatExpired one second late
HeartbeatExpiredLate ==
    heartbeat_armed /\ msg_age > INCOMING_MSG_HEARTBEAT_TIMEOUT + 1

\* a timeout that is not acted on while commands are waiting in a queue
HeartbeatExpiredUnlessCommanded ==
    /\ heartbeat_armed
    /\ msg_age > INCOMING_MSG_HEARTBEAT_TIMEOUT
    /\ \A p \in Ports : \A a \in port_boards[p] : write_queue[p][a] = <<>>

\* a timeout that is acted on in one tick only
HeartbeatExpiredOnce ==
    heartbeat_armed /\ msg_age > INCOMING_MSG_HEARTBEAT_TIMEOUT /\ ~tripped

\* line 498
HeartbeatExpired ==
    heartbeat_armed /\ msg_age > INCOMING_MSG_HEARTBEAT_TIMEOUT

\* lines 497-500
HeartbeatCheck ==
    /\ pc = "heartbeat"
    /\ LET st == IF HeartbeatExpired THEN estop_all_boards(ProcState) ELSE ProcState
       IN  /\ write_queue' = st.wq
           /\ IF st.err # "ok" THEN Raise(st.err) ELSE Goto("hp")
    /\ UNCHANGED <<constructed, standalone, playing, tripped, reread, full_log, outgoing_queue, slept, hp_log, config_file, minor_poll_index,
                   major_poll_index, board_config, heartbeat_armed, msg_age,
                   udp_input_enabled, honour_accel_config, shadow_map,
                   incoming_queue, valid_msg_received, rx, flush_index,
                   written_offsets, flush_snapshot, sent, bus_writes, fault_budget>>


\* TelemetryPacket with every value before its offset
TelemetryPacketValueFirst(address, start_offset, regs) ==
    LET RECURSIVE Pairs(_)
        Pairs(pos) ==
            IF pos > Len(regs) THEN <<>>
            ELSE <<regs[pos], start_offset + pos - 1>> \o Pairs(pos + 1)
    IN  <<address>> \o Pairs(1)

\* the packet of query_and_forward for a response (lines 236-242)
TelemetryPacket(address, start_offset, regs) ==
    LET RECURSIVE Pairs(_)
        Pairs(pos) ==
            IF pos > Len(regs) THEN <<>>
            ELSE <<start_offset + pos - 1, regs[pos]>> \o Pairs(pos + 1)
    IN  <<address>> \o Pairs(1)

\* ReadErrorPacket that repeats the start of the range
ReadErrorPacketStartTwice(address, start_offset, end_offset) ==
    <<address, READ_ERROR_START, start_offset, READ_ERROR_END, start_offset>>

\* the packet of query_and_forward for no response (line 253)
ReadErrorPacket(address, start_offset, end_offset) ==
    <<address, READ_ERROR_START, start_offset, READ_ERROR_END, end_offset>>

\* query_and_forward(address, start_offset, end_offset), then next
QueryAndForward(address, start_offset, end_offset, next) ==
    \E outcome \in (IF LookupError(address) \in {"ok", "KeyError"}
                    THEN AccessOutcomes(address) ELSE {"lookup"}) :
        LET regs == ReadResponse(address, start_offset, end_offset)
            unknown == [i \in 1..(end_offset - start_offset + 1) |-> None]
        IN  /\ fault_budget' = IF outcome = "lookup" THEN fault_budget
                               ELSE Spend(address, outcome)
            /\ IF outcome = "lookup"
               THEN Raise(LookupError(address)) /\ UNCHANGED <<shadow_map, sent, outgoing_queue>>
               ELSE IF outcome = "raise"
               THEN Raise("BusException") /\ UNCHANGED <<shadow_map, sent, outgoing_queue>>
               ELSE IF LookupError(address) = "KeyError"
               THEN Raise("KeyError") /\ UNCHANGED <<shadow_map, sent, outgoing_queue>>
               ELSE IF outcome = "ok"
               THEN /\ shadow_map' = ShadowSetRange(shadow_map, address, start_offset, regs)
                    /\ sent' = Append(sent, Join(TelemetryPacket(address, start_offset, regs)))
                    /\ outgoing_queue' = Append(outgoing_queue,
                                                TelemetryPacket(address, start_offset, regs))
                    /\ next
               ELSE /\ shadow_map' = ShadowSetRange(shadow_map, address, start_offset, unknown)
                    /\ sent' = Append(sent, Join(ReadErrorPacket(address, start_offset, end_offset)))
                    /\ outgoing_queue' = Append(outgoing_queue,
                                                ReadErrorPacket(address, start_offset, end_offset))
                    /\ next

\* the last reads of a log, as many as there are enabled boards
LastReads(log) ==
    IF Len(log) <= Len(enabled_boards) THEN log
    ELSE SubSeq(log, Len(log) - Len(enabled_boards) + 1, Len(log))

\* flush_write_queue is entered: its loop starts at the first board
EnterFlush(wq) ==
    /\ flush_index' = 1
    /\ written_offsets' = {}
    /\ flush_snapshot' = wq

\* line 503
HighPriorityRead ==
    /\ pc = "hp"
    /\ QueryAndForward(poll_address, MB_EXTENSION, MB_INWARD_ENDSTOP_STATE,
                       Goto(IF poll_address = full_read_address THEN "full1" ELSE "flush"))
    /\ IF pc' = "flush" THEN EnterFlush(write_queue)
       ELSE UNCHANGED <<flush_index, written_offsets, flush_snapshot>>
    /\ hp_log' = IF LookupError(poll_address) \in {"ok", "KeyError"}
                 THEN LastReads(Append(hp_log, poll_address))
                 ELSE hp_log
    /\ UNCHANGED <<constructed, standalone, playing, tripped, reread, full_log, slept, config_file, minor_poll_index,
                   major_poll_index, board_config, heartbeat_armed, msg_age,
                   udp_input_enabled, honour_accel_config, write_queue,
                   incoming_queue, valid_msg_received, rx, bus_writes>>

\* lines 508-510: the three reads of the full read
FullRead(at, start_offset, end_offset, next) ==
    /\ pc = at
    /\ QueryAndForward(poll_address, start_offset, end_offset, Goto(next))
    /\ UNCHANGED <<constructed, standalone, playing, tripped, reread, full_log, slept, hp_log, config_file, minor_poll_index,
                   major_poll_index, board_config, heartbeat_armed, msg_age,
                   udp_input_enabled, honour_accel_config, write_queue,
                   incoming_queue, valid_msg_received, rx, bus_writes,
                   flush_index, written_offsets, flush_snapshot>>

FullRead1 == FullRead("full1", MB_BRIDGE_CURRENT, MB_BOARD_TEMPERATURE, "full2")
FullRead2 == FullRead("full2", MB_MOTOR_SETPOINT, MB_POSITION_ENCODER_SCALING, "full3")
FullRead3 == FullRead("full3", MB_INWARD_ENDSTOP_COUNT, MB_EXTENSION_TRIPS_OUTWARD, "config")

\* check_and_write_config_reg that does not look at the shadow map
check_and_write_always(st, address, offset, actuator, config_key) ==
    IF st.err # "ok" \/ actuator[config_key] = Missing THEN st
    ELSE AppendWrite(st, address, <<offset, actuator[config_key]>>)

\* check_and_write_config_reg: a key the actuator does not hold and a
\* KeyError of the lookup are both swallowed by its except clause
check_and_write_config_reg(st, address, offset, actuator, config_key) ==
    IF st.err # "ok" \/ actuator[config_key] = Missing THEN st
    ELSE IF LookupError(address) = "KeyError" THEN st
    ELSE IF LookupError(address) # "ok" THEN [st EXCEPT !.err = LookupError(address)]
    ELSE IF ShadowGet(shadow_map, address, offset) # actuator[config_key]
    THEN AppendWrite(st, address, <<offset, actuator[config_key]>>)
    ELSE st

RECURSIVE CheckRegs(_, _, _, _)
CheckRegs(st, address, actuator, regs) ==
    IF Len(regs) = 0 THEN st
    ELSE CheckRegs(
             check_and_write_config_reg(st, address, Head(regs)[1], actuator, Head(regs)[2]),
             address, actuator, Tail(regs))

\* update_board_config that reconciles the acceleration in either mode
update_board_config_accel_always(st, address) ==
    LET hits == SelectSeq(board_config, LAMBDA b : b.address = address)
        actuator == IF Len(hits) = 0 THEN NoActuator ELSE hits[Len(hits)]
    IN  CheckRegs(st, address, actuator, ConfigRegs)

\* update_board_config: the last actuator of the configuration with the
\* address, the acceleration only when the configuration is honoured for it
update_board_config(st, address) ==
    LET hits == SelectSeq(board_config, LAMBDA b : b.address = address)
        actuator == IF Len(hits) = 0 THEN NoActuator ELSE hits[Len(hits)]
        regs == IF honour_accel_config THEN ConfigRegs
                ELSE SelectSeq(ConfigRegs, LAMBDA r : r[1] # MB_MOTOR_ACCEL)
    IN  CheckRegs(st, address, actuator, regs)

\* line 511
UpdateBoardConfig ==
    /\ pc = "config"
    /\ LET st == update_board_config(ProcState, poll_address)
       IN  /\ write_queue' = st.wq
           /\ IF st.err # "ok" THEN Raise(st.err) ELSE Goto("flush")
           /\ EnterFlush(st.wq)
           /\ full_log' = IF st.err # "ok" THEN full_log
                          ELSE [full_log EXCEPT ![Len(full_log)] = Append(@, poll_address)]
    /\ UNCHANGED <<constructed, standalone, playing, tripped, reread, outgoing_queue, slept, hp_log, config_file, minor_poll_index,
                   major_poll_index, board_config, heartbeat_armed, msg_age,
                   udp_input_enabled, honour_accel_config, shadow_map,
                   incoming_queue, valid_msg_received, rx, sent, bus_writes, fault_budget>>


(***************************************************************************)
(* flush_write_queue: one step per entry popped, one per board left, one   *)
(* for the two clear_write_queue calls.                                    *)
(***************************************************************************)
flush_address == enabled_boards[flush_index]   \* the local 'write_address'

\* WritePacket that reports the offset written in place of the acknowledgement
WritePacketOffsetOnly(write_address, response, write_offset) ==
    <<write_address, WRITE_ERROR, write_offset>>

\* the packet sent for a write (lines 396-407)
WritePacket(write_address, response, write_offset) ==
    IF response # NoResponse THEN <<write_address, response[1], response[2]>>
    ELSE <<write_address, WRITE_ERROR, write_offset>>

\* Superseded that forgets what was written
SupersededNever(write_offset, written) == FALSE

\* line 383: an entry whose offset was written in this flush is superseded
Superseded(write_offset, written) == write_offset \in written

\* a flush that finds every register up to date
NeedsWriteNever(write_address, write_offset, write_value) == FALSE

\* line 387
NeedsWrite(write_address, write_offset, write_value) ==
    send_every_write
        \/ write_value # ShadowGet(shadow_map, write_address, write_offset)

\* lines 378-413: the entry at the end of the queue of the board is popped
\* and, unless superseded, written
FlushPop ==
    /\ pc = "flush"
    /\ flush_index <= Len(enabled_boards)
    /\ LookupError(flush_address) = "ok"
    /\ LET p == get_port_for_address(flush_address)
           q == write_queue[p][flush_address]
           write_offset == q[Len(q)][1]
           write_value == q[Len(q)][2]
       IN  /\ Len(q) > 0
           /\ write_queue' = [write_queue EXCEPT ![p][flush_address] = SubSeq(q, 1, Len(q) - 1)]
           /\ IF Superseded(write_offset, written_offsets)
              THEN /\ Goto("flush")
                   /\ UNCHANGED <<written_offsets, shadow_map, sent, bus_writes, fault_budget>>
              ELSE /\ written_offsets' = written_offsets \cup {write_offset}
                   /\ IF ~NeedsWrite(flush_address, write_offset, write_value)
                      THEN /\ Goto("flush")
                           /\ UNCHANGED <<shadow_map, sent, bus_writes, fault_budget>>
                      ELSE \E outcome \in AccessOutcomes(flush_address) :
                             /\ bus_writes' = Append(bus_writes,
                                    <<flush_address, write_offset, write_value>>)
                             /\ fault_budget' = Spend(flush_address, outcome)
                             /\ IF outcome = "raise"
                                THEN Raise("BusException") /\ UNCHANGED <<shadow_map, sent>>
                                ELSE LET response == IF outcome = "ok"
                                                     THEN WriteResponse(write_offset, write_value)
                                                     ELSE NoResponse
                                     IN  /\ sent' = Append(sent,
                                                Join(WritePacket(flush_address, response, write_offset)))
                                         /\ shadow_map' =
                                                IF response = NoResponse
                                                THEN ShadowSetRange(shadow_map, flush_address,
                                                                    write_offset, <<None>>)
                                                ELSE shadow_map
                                         /\ Goto("flush")
    /\ UNCHANGED <<constructed, standalone, playing, tripped, reread, full_log, outgoing_queue, slept, hp_log, config_file, minor_poll_index,
                   major_poll_index, board_config, heartbeat_armed, msg_age,
                   udp_input_enabled, honour_accel_config, incoming_queue,
                   valid_msg_received, rx, flush_index, flush_snapshot>>

\* line 368: the queue of the board is empty (or the lookup of line 372
\* raises), the loop goes to the next board
FlushNextBoard ==
    /\ pc = "flush"
    /\ flush_index <= Len(enabled_boards)
    /\ IF LookupError(flush_address) # "ok"
       THEN Raise(LookupError(flush_address)) /\ UNCHANGED flush_index
       ELSE /\ Len(write_queue[get_port_for_address(flush_address)][flush_address]) = 0
            /\ flush_index' = flush_index + 1
            /\ Goto("flush")
    /\ written_offsets' = {}
    /\ UNCHANGED <<constructed, standalone, playing, tripped, reread, full_log, outgoing_queue, slept, hp_log, config_file, minor_poll_index,
                   major_poll_index, board_config, heartbeat_armed, msg_age,
                   udp_input_enabled, honour_accel_config, shadow_map, write_queue,
                   incoming_queue, valid_msg_received, rx, flush_snapshot, sent,
                   bus_writes, fault_budget>>

\* clear_write_queue of a port
clear_write_queue(p) == [a \in port_boards[p] |-> <<>>]

\* lines 415-416
FlushClear ==
    /\ pc = "flush"
    /\ flush_index > Len(enabled_boards)
    /\ write_queue' = [p \in Ports |-> clear_write_queue(p)]
    /\ Goto("advance")
    /\ UNCHANGED <<constructed, standalone, playing, tripped, reread, full_log, outgoing_queue, slept, hp_log, config_file, minor_poll_index,
                   major_poll_index, board_config, heartbeat_armed, msg_age,
                   udp_input_enabled, honour_accel_config, shadow_map,
                   incoming_queue, valid_msg_received, rx, flush_index,
                   written_offsets, flush_snapshot, sent, bus_writes, fault_budget>>

\* line 518: the test of the spin case
BothPortsDisabled == port_enabled["left"] = FALSE /\ port_enabled["left"] = FALSE

\* lines 516-520; the locals and the records of the tick are dropped, the
\* worker empties the outgoing queue after the call (UkiArticulation.py,
\* lines 137-149)
Advance ==
    /\ pc = "advance"
    /\ minor_poll_index' = minor_poll_index + 1
    /\ Goto("idle")
    /\ valid_msg_received' = FALSE
    /\ flush_index' = 1
    /\ written_offsets' = {}
    /\ flush_snapshot' = write_queue
    /\ sent' = <<>>
    /\ bus_writes' = <<>>
    /\ outgoing_queue' = <<>>
    /\ slept' = BothPortsDisabled
    /\ tripped' = HeartbeatExpired
    /\ UNCHANGED <<constructed, standalone, playing, reread, full_log, hp_log, config_file, major_poll_index,
                   board_config, heartbeat_armed, msg_age, udp_input_enabled,
                   honour_accel_config, shadow_map, write_queue, incoming_queue,
                   rx, fault_budget>>

(***************************************************************************)
(* The environment between two ticks: the clock, the datagrams of the      *)
(* input socket, the direct command queue, the configuration file, and the *)
(* messages of the console that uki_mm_control handles after a tick.       *)
(***************************************************************************)
\* command frames as lists of 16-bit words: address, then offset/value pairs
Frames ==
    { <<0, MB_ESTOP, 0>>,                          \* broadcast estop
      <<0, MB_RESET_ESTOP, RESET_MAGIC>>,          \* broadcast reset
      <<0, MB_ESTOP, -1>>,                         \* broadcast estop, another value
      <<0, MB_RESET_ESTOP, 1>>,                    \* reset with a wrong value
      <<0, MB_RESET_ESTOP, RESET_MAGIC + 1>>,
      <<0, MB_MOTOR_SETPOINT, 10>>,                \* another broadcast offset
      <<0, MB_MOTOR_SETPOINT, 10, MB_ESTOP, 0>>,   \* the same, then an estop
      <<HEARTBEAT_ADDRESS, MB_MOTOR_SETPOINT, 10>>,
      <<HEARTBEAT_ADDRESS, MB_ESTOP, 1>>,
      <<HEARTBEAT_ADDRESS>>,                       \* the address and no pair
      <<1, MB_MOTOR_SETPOINT, 70>>,
      <<2, MB_MOTOR_SETPOINT, -70>>,
      <<1, MB_MOTOR_SETPOINT, 10, MB_MOTOR_SETPOINT, 20>>,
      <<2, MB_ESTOP, 0, MB_MOTOR_ACCEL, 90>>,
      <<3, MB_MOTOR_SETPOINT, 10>>,                \* a disabled board
      <<9, MB_MOTOR_SETPOINT, 10>> }               \* an unknown board

\* the datagrams the input socket may hold: each frame as its sender encodes
\* it, and the same bytes with one more byte (an odd length)
Datagrams ==
    {JoinSigned(f) : f \in Frames}
        \cup {JoinSigned(f) \o <<1>> : f \in {<<0, MB_ESTOP, 0>>, <<1, MB_MOTOR_SETPOINT, 70>>}}

\* triples the sequencer may put on the direct command queue
DirectTriples ==
    { <<1, MB_MOTOR_SETPOINT, 61>>,
      <<2, MB_MOTOR_ACCEL, 100>>,
      <<3, MB_MOTOR_SETPOINT, 0>>,                 \* a disabled board
      <<9, MB_MOTOR_SETPOINT, 0>>,                 \* an unknown board
      <<0, MB_ESTOP, 1>> }                         \* the broadcast address

idleFrame == <<constructed, standalone, reread, full_log, outgoing_queue, slept, hp_log, minor_poll_index, major_poll_index,
               board_config, valid_msg_received, rx, flush_index, written_offsets,
               flush_snapshot, sent, bus_writes, fault_budget, shadow_map>>

\* one second passes
Clock ==
    /\ pc = "idle"
    /\ msg_age < MaxAge
    /\ msg_age' = msg_age + 1
    /\ UNCHANGED <<idleFrame, tripped, playing, pc, crash, config_file, heartbeat_armed,
                   udp_input_enabled, honour_accel_config, write_queue,
                   incoming_queue>>

\* the put of uki_send_comms (line 170): a triple of the sequencer arrives on
\* the direct command queue
PutDirect(t) ==
    /\ pc = "idle"
    /\ Len(incoming_queue) < MaxDirect
    /\ incoming_queue' = Append(incoming_queue, t)
    /\ UNCHANGED <<idleFrame, tripped, playing, pc, crash, config_file, heartbeat_armed, msg_age,
                   udp_input_enabled, honour_accel_config, write_queue>>

\* the configuration file is edited, removed or damaged on disk
EditConfigFile(f) ==
    /\ pc = "idle"
    /\ f # config_file
    /\ config_file' = f
    /\ UNCHANGED <<idleFrame, tripped, playing, pc, crash, heartbeat_armed, msg_age,
                   udp_input_enabled, honour_accel_config, write_queue,
                   incoming_queue>>

\* no queue holds more than MaxQueue entries before a console message adds one
QueueRoom ==
    \A p \in Ports : \A a \in port_boards[p] : Len(write_queue[p][a]) < MaxQueue

\* a message of the console that changes the manager as st says
Console(st, udp, accel) ==
    /\ pc = "idle"
    /\ write_queue' = st.wq
    /\ heartbeat_armed' = st.armed
    /\ udp_input_enabled' = udp
    /\ honour_accel_config' = accel
    /\ IF st.err # "ok" THEN Raise(st.err) ELSE Goto("idle")
    /\ UNCHANGED <<idleFrame, config_file, msg_age, incoming_queue>>

\* udp_input that leaves the heartbeat as it is
udp_input_armed(st, enabled) ==
    IF enabled THEN st ELSE estop_all_boards(st)

\* udp_input(enabled)
udp_input(st, enabled) ==
    IF enabled THEN st
    ELSE LET q == estop_all_boards(st)
         IN  IF q.err # "ok" THEN q ELSE [q EXCEPT !.armed = FALSE]

\* message 'UDP': udp_input(True), set_accel_config(True)
GuiUDP ==
    /\ ~udp_input_enabled
    /\ Console(udp_input(ProcState, TRUE), TRUE, TRUE)
    /\ tripped' = tripped
    /\ playing' = playing

\* message 'CSV' or 'None': udp_input(False), set_accel_config(False)
GuiCSV ==
    /\ QueueRoom
    /\ Console(udp_input(ProcState, FALSE), FALSE, FALSE)
    /\ tripped' = FALSE
    /\ playing' = playing

\* message 'STOP': estop_all_boards, playing = False
GuiSTOP ==
    /\ QueueRoom
    /\ Console(estop_all_boards(ProcState), udp_input_enabled, honour_accel_config)
    /\ tripped' = tripped
    /\ playing' = FALSE

\* message 'RESET': reset_all_boards
GuiRESET ==
    /\ QueueRoom
    /\ Console(reset_all_boards(ProcState), udp_input_enabled, honour_accel_config)
    /\ tripped' = FALSE
    /\ playing' = playing

\* message 'QUIT' (UkiArticulation.py, lines 110-113 and 165):
\* estop_all_boards, then running = False; the loop of uki_mm_control is
\* left without another call of main_poll_loop, and cleanup closes the sockets
GuiQUIT ==
    /\ pc = "idle"
    /\ QueueRoom
    /\ LET st == estop_all_boards(ProcState)
       IN  /\ write_queue' = st.wq
           /\ IF st.err # "ok" THEN Raise(st.err) ELSE Goto("exited")
    /\ UNCHANGED <<idleFrame, tripped, playing, config_file, heartbeat_armed, msg_age,
                   udp_input_enabled, honour_accel_config, incoming_queue>>

\* command frames of a UDP client that drives the motors
CommandFrames ==
    { <<1, MB_MOTOR_SETPOINT, 70>>,
      <<2, MB_MOTOR_SETPOINT, -70, MB_MOTOR_ACCEL, 70>>,
      <<HEARTBEAT_ADDRESS>> }

\* triples of a sequencer that drives the motors
CommandTriples ==
    { <<1, MB_MOTOR_SETPOINT, 61>>,
      <<2, MB_MOTOR_SETPOINT, -61>>,
      <<1, MB_MOTOR_ACCEL, 61>>,
      <<2, MB_ESTOP, 0>> }

(***************************************************************************)
(* Construction (UkiModbusManager.__init__ and UkiModbus.__init__).        *)
(***************************************************************************)
\* lines 184-193
EnabledBoards(actuators) ==
    LET on == SelectSeq(actuators, LAMBDA b : b.enabled)
    IN  [i \in 1..Len(on) |-> on[i].address]

PortBoards(actuators, name) ==
    {actuators[i].address : i \in {j \in 1..Len(actuators) :
        actuators[j].enabled /\ actuators[j].port = name}}

NoAccess == [pc |-> "none"]
NoCall == [fn |-> "none", x |-> 0, y |-> 0, z |-> <<>>]
NoResult == [done |-> FALSE, val |-> <<>>]

\* the manager built from the configuration file 'file' (no actuators when
\* the file cannot be read), each serial port opened or not, about to call
\* main_poll_loop for the first time; budget is the number of bus calls that
\* may end with no response, every the value of SEND_EVERY_WRITE
Built(file, left_open, right_open, budget, every) ==
    /\ pc = "idle"
    /\ crash = "none"
    /\ minor_poll_index = 0
    /\ major_poll_index = 0
    /\ config_file = file
    /\ board_config = file.actuators
    /\ enabled_boards = EnabledBoards(file.actuators)
    /\ heartbeat_armed = FALSE
    /\ msg_age = 0
    /\ udp_input_enabled = TRUE
    /\ honour_accel_config = TRUE
    /\ port_enabled = [left |-> left_open, right |-> right_open]
    /\ port_boards = [left |-> PortBoards(file.actuators, "Left"),
                      right |-> PortBoards(file.actuators, "Right")]
    /\ shadow_map = [p \in Ports |-> [a \in port_boards[p] |-> <<>>]]
    /\ write_queue = [p \in Ports |-> [a \in port_boards[p] |-> <<>>]]
    /\ incoming_queue = <<>>
    /\ valid_msg_received = FALSE
    /\ rx = <<>>
    /\ flush_index = 1
    /\ written_offsets = {}
    /\ flush_snapshot = write_queue
    /\ sent = <<>>
    /\ bus_writes = <<>>
    /\ fault_budget = budget
    /\ send_every_write = every
    /\ outgoing_queue = <<>>
    /\ slept = FALSE
    /\ hp_log = <<>>
    /\ playing = FALSE
    /\ SequencerIdle
    /\ tripped = FALSE
    /\ reread = [done |-> FALSE, ticks |-> 0]
    /\ full_log = << <<>> >>

\* the manager built from the configuration 'actuators'
Constructed(actuators, left_open, right_open, budget) ==
    Built([status |-> "ok", actuators |-> actuators], left_open, right_open,
          budget, SEND_EVERY_WRITE)

(***************************************************************************)
(* The player piano thread (UkiArticulation.py, uki_player_piano) and what *)
(* uki_mm_control shares with it.  The script has ScriptRows rows, Speed   *)
(* and Accel columns only, and sets every board to the speed 30.  A step   *)
(* of the thread is taken between two ticks: it meets the other thread     *)
(* only in playing, fault_active and the direct command queue, and the     *)
(* other thread writes the first two between two ticks and reads the third *)
(* at one place of a tick.                                                 *)
(***************************************************************************)
pianoFrame == <<constructed, acc, arg, res, tripped, reread, full_log, outgoing_queue,
                slept, hp_log, minor_poll_index, major_poll_index, board_config,
                valid_msg_received, rx, flush_index, written_offsets,
                flush_snapshot, sent, bus_writes, fault_budget, shadow_map, pc,
                crash, config_file, heartbeat_armed, msg_age, udp_input_enabled,
                honour_accel_config, write_queue>>

\* uki_send_comms: the triple is put on the queue while playing holds, and
\* dropped otherwise
uki_send_comms(address, offset, value) ==
    /\ playing => Len(incoming_queue) < MaxDirect
    /\ incoming_queue' = IF playing THEN Append(incoming_queue, <<address, offset, value>>)
                         ELSE incoming_queue

\* message 'PLAY' (line 133)
GuiPLAY ==
    /\ pc = "idle"
    /\ ~playing
    /\ playing' = TRUE
    /\ UNCHANGED <<pianoFrame, sequencer, incoming_queue>>

\* lines 141-163: what the boards reported of their estop state
UpdateFault(estop_active) ==
    /\ pc = "idle"
    /\ estop_active # fault_active
    /\ fault_active' = estop_active
    /\ UNCHANGED <<pianoFrame, playing, incoming_queue, piano_state, loops,
                   loop_count, board_names, row, send_index>>

\* lines 179-183
PianoIdle ==
    /\ pc = "idle"
    /\ piano_state = "IDLE"
    /\ playing
    /\ piano_state' = "INIT"
    /\ UNCHANGED <<pianoFrame, playing, incoming_queue, fault_active, loops,
                   loop_count, board_names, row, send_index>>

\* lines 185-220; an exception of the read that is not caught ends the thread
PianoInit(script_loops) ==
    /\ pc = "idle"
    /\ piano_state = "INIT"
    /\ config_file.status \in CaughtFileErrors \cup {"ok"}
    /\ loops' = script_loops
    /\ board_names' = IF config_file.status = "ok"
                      THEN EnabledBoards(config_file.actuators) ELSE <<>>
    /\ playing' = (playing /\ config_file.status = "ok")
    /\ piano_state' = IF playing' THEN "RESET_ESTOP" ELSE "IDLE"
    /\ send_index' = 1
    /\ UNCHANGED <<pianoFrame, incoming_queue, fault_active, loop_count, row>>

\* lines 224-230: one uki_send_comms call of the reset loops
PianoReset ==
    /\ pc = "idle"
    /\ piano_state = "RESET_ESTOP"
    /\ send_index <= RESET_LOOPS * Len(board_names)
    /\ uki_send_comms(board_names[((send_index - 1) % Len(board_names)) + 1],
                      MB_RESET_ESTOP, RESET_MAGIC)
    /\ send_index' = send_index + 1
    /\ UNCHANGED <<pianoFrame, playing, fault_active, piano_state, loops,
                   loop_count, board_names, row>>

\* lines 232-236
PianoResetDone ==
    /\ pc = "idle"
    /\ piano_state = "RESET_ESTOP"
    /\ send_index > RESET_LOOPS * Len(board_names)
    /\ IF playing
       THEN loop_count' = 0 /\ piano_state' = "ROLLING"
       ELSE loop_count' = loop_count /\ piano_state' = "IDLE"
    /\ row' = -1
    /\ send_index' = 0
    /\ UNCHANGED <<pianoFrame, playing, incoming_queue, fault_active, loops,
                   board_names>>

\* lines 239-262 and 337-338: the script file is there or not
PianoOpenScript(found) ==
    /\ pc = "idle"
    /\ piano_state = "ROLLING"
    /\ row = -1
    /\ IF found
       THEN row' = 0 /\ UNCHANGED <<playing, piano_state, send_index>>
       ELSE /\ playing' = FALSE
            /\ piano_state' = "STOPPING"
            /\ send_index' = 1
            /\ row' = row
    /\ UNCHANGED <<pianoFrame, incoming_queue, fault_active, loops, loop_count,
                   board_names>>

\* lines 264-271: the top of the loop over the rows
PianoRowStart ==
    /\ pc = "idle"
    /\ piano_state = "ROLLING"
    /\ row >= 0
    /\ row < ScriptRows
    /\ send_index = 0
    /\ playing' = (playing /\ ~fault_active)
    /\ IF ~playing' THEN row' = ScriptRows /\ send_index' = 0
       ELSE IF Len(board_names) = 0 THEN row' = row + 1 /\ send_index' = 0
       ELSE row' = row /\ send_index' = 1
    /\ UNCHANGED <<pianoFrame, incoming_queue, fault_active, piano_state, loops,
                   loop_count, board_names>>

\* lines 296-330: one uki_send_comms call of a row
PianoRowSend ==
    /\ pc = "idle"
    /\ piano_state = "ROLLING"
    /\ send_index >= 1
    /\ LET address == board_names[(send_index + 1) \div 2]
       IN  IF send_index % 2 = 1
           THEN uki_send_comms(address, MB_MOTOR_SETPOINT, 30)
           ELSE uki_send_comms(address, MB_MOTOR_ACCEL, 100)
    /\ IF send_index = 2 * Len(board_names)
       THEN row' = row + 1 /\ send_index' = 0
       ELSE row' = row /\ send_index' = send_index + 1
    /\ UNCHANGED <<pianoFrame, playing, fault_active, piano_state, loops,
                   loop_count, board_names>>

\* lines 332-338: the loop over the rows is left
PianoLoopEnd ==
    /\ pc = "idle"
    /\ piano_state = "ROLLING"
    /\ row = ScriptRows
    /\ send_index = 0
    /\ loop_count' = IF loop_count < loops - 1 THEN loop_count + 1 ELSE loop_count
    /\ playing' = (playing /\ loop_count < loops - 1)
    /\ IF playing'
       THEN piano_state' = piano_state /\ row' = -1 /\ send_index' = 0
       ELSE piano_state' = "STOPPING" /\ row' = row /\ send_index' = 1
    /\ UNCHANGED <<pianoFrame, incoming_queue, fault_active, loops, board_names>>

\* lines 342-348: one uki_send_comms call of the final stop
PianoStopSend ==
    /\ pc = "idle"
    /\ piano_state = "STOPPING"
    /\ send_index <= 2 * Len(board_names)
    /\ LET address == board_names[(send_index + 1) \div 2]
       IN  IF send_index % 2 = 1
           THEN uki_send_comms(address, MB_MOTOR_SETPOINT, 0)
           ELSE uki_send_comms(address, MB_MOTOR_ACCEL, 100)
    /\ send_index' = send_index + 1
    /\ UNCHANGED <<pianoFrame, playing, fault_active, piano_state, loops,
                   loop_count, board_names, row>>

\* lines 350-351
PianoStopDone ==
    /\ pc = "idle"
    /\ piano_state = "STOPPING"
    /\ send_index > 2 * Len(board_names)
    /\ piano_state' = "IDLE"
    /\ UNCHANGED <<pianoFrame, playing, incoming_queue, fault_active, loops,
                   loop_count, board_names, row, send_index>>

Init ==
    /\ Constructed(CfgA, TRUE, TRUE, 0)
    /\ acc = NoAccess
    /\ arg = NoCall
    /\ res = NoResult

(***************************************************************************)
(* UkiModbus.access_regs followed attempt by attempt.  acc.log holds what  *)
(* mb_conn.execute did at each attempt so far.                             *)
(***************************************************************************)
\* what one call of mb_conn.execute may do
AttemptResults == {"response", "ModbusError", "ModbusInvalidResponseError", "Exception"}

\* the requests whose call is followed: a read of the high priority range
\* and a write of one register
Requests ==
    { [command |-> "read", address |-> 1, start_offset |-> MB_EXTENSION,
       end_offset |-> MB_INWARD_ENDSTOP_STATE, write_data |-> 0],
      [command |-> "write", address |-> 2, start_offset |-> MB_ESTOP,
       end_offset |-> MB_ESTOP, write_data |-> 1] }

\* what mb_conn.execute returns for a request that is answered
Response(request) ==
    IF request.command = "read"
    THEN ReadResponse(request.address, request.start_offset, request.end_offset)
    ELSE WriteResponse(request.start_offset, request.write_data)

\* what the constructor of the transport is given as its serial port: no
\* port, a port that opens, a port whose opening raises
SerialPorts == {"None", "opens", "SerialException", "ModbusError"}

\* UkiModbus.__init__, lines 95-112: enabled only when the port has opened
Enabled(serial_port) == serial_port = "opens"

\* access_regs entered whatever self.enabled is
EnteredLoop(request, enabled) ==
    [pc |-> "loop", request |-> request,
     enabled |-> enabled, retries |-> MAX_RETRIES, retry_count |-> 0,
     response |-> NoResponse, log |-> <<>>, sleeps |-> 0]

\* lines 121-124: access_regs is entered
Entered(request, enabled) ==
    [pc |-> IF enabled THEN "loop" ELSE "sleep", request |-> request,
     enabled |-> enabled, retries |-> MAX_RETRIES, retry_count |-> 0,
     response |-> NoResponse, log |-> <<>>, sleeps |-> 0]

\* line 124: the condition of the while loop
LoopCondition(a) == a.response = NoResponse /\ a.retry_count < a.retries

\* lines 125-140: one pass of the loop, mb_conn.execute doing 'result'
Attempt(a, result) ==
    LET logged == [a EXCEPT !.log = Append(a.log, result)]
    IN  CASE result = "response" ->
                [logged EXCEPT !.response = Response(a.request)]
          [] result = "ModbusError" -> logged
          [] result = "ModbusInvalidResponseError" ->
                [logged EXCEPT !.retry_count = a.retry_count + 1]
          [] OTHER -> [logged EXCEPT !.pc = "raised"]

AccessAttempt(result) ==
    /\ acc.pc = "loop"
    /\ LoopCondition(acc)
    /\ Len(acc.log) < MaxAttempts
    /\ acc' = Attempt(acc, result)
    /\ UNCHANGED <<tickVars, sequencer, config_file, arg, res>>

\* line 124: the loop is left
AccessLoopExit ==
    /\ acc.pc = "loop"
    /\ ~LoopCondition(acc)
    /\ acc' = [acc EXCEPT !.pc = "sleep"]
    /\ UNCHANGED <<tickVars, sequencer, config_file, arg, res>>

\* lines 142-144: the inter-frame delay, then the return
AccessReturn ==
    /\ acc.pc = "sleep"
    /\ acc' = [acc EXCEPT !.pc = "returned", !.sleeps = acc.sleeps + 1]
    /\ UNCHANGED <<tickVars, sequencer, config_file, arg, res>>

\* the way a call that ended appears to its caller (see AccessOutcomes)
AccessEnding(a) ==
    IF a.pc = "raised" THEN "raise"
    ELSE IF a.pc = "returned" /\ a.response = NoResponse THEN "none"
    ELSE IF a.pc = "returned" THEN "ok"
    ELSE "running"

InitAccess ==
    /\ Constructed(CfgA, TRUE, TRUE, 0)
    /\ acc \in {Entered(r, Enabled(k)) @@ [serial_port |-> k] :
                  r \in Requests, k \in SerialPorts}
    /\ arg = NoCall
    /\ res = NoResult

NextAccess ==
    \/ \E result \in AttemptResults : AccessAttempt(result)
    \/ AccessLoopExit
    \/ AccessReturn

SpecAccess == InitAccess /\ [][NextAccess]_vars

(***************************************************************************)
(* Functions applied alone: sanity_check_command, and the packet of        *)
(* query_and_forward read back by the decoding of process_incoming_packet. *)
(***************************************************************************)
MaxRegs == 2            \* registers of a read whose packet is read back

ClampOffsets == {MB_MOTOR_SETPOINT, MB_MOTOR_ACCEL, MB_ESTOP, 0}
ClampValues == {-32768, -1000, -61, -60, -59, -1, 0, 1, 59, 60, 61, 1000, 32767}
PacketAddresses == {1, 5, 255, 256}
PacketOffsets == {MB_BRIDGE_CURRENT, MB_EXTENSION}
RegisterValues == {0, 10, 255, 256, 32767, 32768, 65535}

\* the tuples of 1..n register values
RegisterLists(n) == UNION {[1..k -> RegisterValues] : k \in 1..n}

Calls ==
    [fn : {"sanity_check_command"}, x : ClampOffsets, y : ClampValues, z : {<<>>}]
        \cup [fn : {"read answered", "read failed"}, x : PacketAddresses,
              y : PacketOffsets, z : RegisterLists(MaxRegs)]

\* lines 322-325 applied to a whole datagram
Decode(incoming_packet) ==
    [address |-> DecodeAddress(incoming_packet),
     pairs |-> DecodePairs(incoming_packet, 2)]

ApplySanityCheck ==
    /\ arg.fn = "sanity_check_command"
    /\ ~res.done
    /\ res' = [done |-> TRUE, val |-> sanity_check_command(arg.x, arg.y)]
    /\ UNCHANGED <<tickVars, sequencer, config_file, acc, arg>>

\* the packet of a read of arg.y .. arg.y + Len(arg.z) - 1 that returned arg.z
ApplyAnswered ==
    /\ arg.fn = "read answered"
    /\ ~res.done
    /\ res' = [done |-> TRUE,
               val |-> Decode(Join(TelemetryPacket(arg.x, arg.y, arg.z)))]
    /\ UNCHANGED <<tickVars, sequencer, config_file, acc, arg>>

\* the packet of the same read when it returned no response
ApplyFailed ==
    /\ arg.fn = "read failed"
    /\ ~res.done
    /\ res' = [done |-> TRUE,
               val |-> Decode(Join(ReadErrorPacket(arg.x, arg.y,
                                                   arg.y + Len(arg.z) - 1)))]
    /\ UNCHANGED <<tickVars, sequencer, config_file, acc, arg>>

InitFunctions ==
    /\ Constructed(CfgA, TRUE, TRUE, 0)
    /\ acc = NoAccess
    /\ arg \in Calls
    /\ res = NoResult

NextFunctions == ApplySanityCheck \/ ApplyAnswered \/ ApplyFailed

SpecFunctions == InitFunctions /\ [][NextFunctions]_vars

\* the steps of one call of main_poll_loop, the datagrams apart
TickStep ==
    \/ Bookkeep
    \/ RecvDone
    \/ ProcessIncomingQueue
    \/ HeartbeatCheck
    \/ HighPriorityRead
    \/ FullRead1
    \/ FullRead2
    \/ FullRead3
    \/ UpdateBoardConfig
    \/ FlushPop
    \/ FlushNextBoard
    \/ FlushClear
    \/ Advance

\* the bridge driven by a script: the player piano thread, the messages
\* PLAY and STOP of the console and the estop state the boards report
NextPiano ==
    \/ TickStep
    \/ GuiPLAY
    \/ GuiSTOP
    \/ \E estop_active \in BOOLEAN : UpdateFault(estop_active)
    \/ PianoIdle
    \/ \E script_loops \in 1..MaxLoops : PianoInit(script_loops)
    \/ PianoReset
    \/ PianoResetDone
    \/ \E found \in BOOLEAN : PianoOpenScript(found)
    \/ PianoRowStart
    \/ PianoRowSend
    \/ PianoLoopEnd
    \/ PianoStopSend
    \/ PianoStopDone

SpecPiano == Init /\ [][NextPiano]_vars

\* the bridge under motor commands of both inputs, the clock, and the stop
\* and reset messages of the console
NextCommands ==
    \/ TickStep
    \/ \E f \in CommandFrames : RecvDatagram(JoinSigned(f))
    \/ \E t \in CommandTriples : PutDirect(t)
    \/ Clock
    \/ GuiSTOP
    \/ GuiRESET

SpecCommands == Init /\ [][NextCommands]_vars

\* the bridge under UDP commands, the clock and the console; the bus answers
\* or raises, the configuration file and the direct queue are left alone
Next ==
    \/ TickStep
    \/ \E d \in Datagrams : RecvDatagram(d)
    \/ Clock
    \/ GuiUDP
    \/ GuiCSV
    \/ GuiSTOP
    \/ GuiRESET

Spec == Init /\ [][Next]_vars

(***************************************************************************)
(* The tick over a bus whose calls may also end with no response: the      *)
(* datagrams of BusFrames and the triples of the sequencer arrive, the      *)
(* console and the clock stay quiet.                                       *)
(***************************************************************************)
BusFrames ==
    { <<1, MB_MOTOR_SETPOINT, 10, MB_MOTOR_SETPOINT, 20>>,
      <<2, MB_ESTOP, 0, MB_MOTOR_ACCEL, 90, MB_ESTOP, 1>>,
      <<0, MB_ESTOP, 0>> }

\* the triples of DirectTriples that are for an enabled board
BusTriples == {t \in DirectTriples : t[1] \in Range(EnabledBoards(CfgA))}

InitBus ==
    /\ Constructed(CfgA, TRUE, TRUE, MaxFaults)
    /\ acc = NoAccess
    /\ arg = NoCall
    /\ res = NoResult

NextBus ==
    \/ TickStep
    \/ \E f \in BusFrames : RecvDatagram(JoinSigned(f))
    \/ \E t \in BusTriples : PutDirect(t)

SpecBus == InitBus /\ [][NextBus]_vars

(***************************************************************************)
(* The tick of a module loaded with SEND_EVERY_WRITE = False: a write whose *)
(* value the shadow map holds is not sent.                                 *)
(***************************************************************************)
InitSkip ==
    /\ Built([status |-> "ok", actuators |-> CfgA], TRUE, TRUE, 0, FALSE)
    /\ acc = NoAccess
    /\ arg = NoCall
    /\ res = NoResult

SpecSkip == InitSkip /\ [][NextBus]_vars

(***************************************************************************)
(* The tick while the configuration file is edited between ticks: the      *)
(* manager is built from any file of ReloadStates that its constructor     *)
(* gets through (a file it cannot read leaves it with no actuator).        *)
(* The sequencer goes on queueing triples for the boards of CfgA.           *)
(***************************************************************************)
InitReload ==
    /\ \E f \in ReloadStates :
           /\ f.status \in CaughtFileErrors \cup {"ok"}
           /\ Built(f, TRUE, TRUE, 0, SEND_EVERY_WRITE)
    /\ acc = NoAccess
    /\ arg = NoCall
    /\ res = NoResult

NextReload ==
    \/ TickStep
    \/ \E f \in ReloadStates : EditConfigFile(f)
    \/ \E t \in BusTriples : PutDirect(t)

SpecReload == InitReload /\ [][NextReload]_vars

(***************************************************************************)
(* The tick while the sequencer queues triples for any address.            *)
(***************************************************************************)
NextDirect ==
    \/ TickStep
    \/ \E t \in DirectTriples : PutDirect(t)

SpecDirect == Init /\ [][NextDirect]_vars

(***************************************************************************)
(* The tick of a manager each of whose serial ports has opened or has not: *)
(* a call on a port that has not opened returns no response.               *)
(***************************************************************************)
InitPorts ==
    /\ \E left_open, right_open \in BOOLEAN :
           Constructed(CfgA, left_open, right_open, 0)
    /\ acc = NoAccess
    /\ arg = NoCall
    /\ res = NoResult

NextPorts ==
    \/ TickStep
    \/ \E t \in BusTriples : PutDirect(t)

SpecPorts == InitPorts /\ [][NextPorts]_vars

(***************************************************************************)
(* The round robin of a manager built from a file of one, two or three     *)
(* enabled boards, over a bus whose calls may end with no response.        *)
(***************************************************************************)
InitRound ==
    /\ \E actuators \in RoundFiles : Constructed(actuators, TRUE, TRUE, MaxFaults)
    /\ acc = NoAccess
    /\ arg = NoCall
    /\ res = NoResult

NextRound == TickStep

SpecRound == InitRound /\ [][NextRound]_vars

(***************************************************************************)
(* The tick of a worker that the console tells to quit between two ticks.  *)
(***************************************************************************)
NextQuit ==
    \/ TickStep
    \/ \E f \in BusFrames : RecvDatagram(JoinSigned(f))
    \/ GuiQUIT

SpecQuit == Init /\ [][NextQuit]_vars

(***************************************************************************)
(* update_board_config alone: the full read of the board has just set the  *)
(* shadow map of the range MB_MOTOR_SETPOINT..MB_POSITION_ENCODER_SCALING, *)
(* to what the board answered or to None.                                  *)
(***************************************************************************)
\* what a board may answer to that read: at each configuration register the
\* value of BoardRegister or 0, and 0 elsewhere
Answers(address) ==
    LET s == MB_MOTOR_SETPOINT
        e == MB_POSITION_ENCODER_SCALING
        offsets == {ConfigRegs[i][1] : i \in 1..Len(ConfigRegs)}
    IN  {[i \in 1..(e - s + 1) |->
            IF s + i - 1 \in kept THEN BoardRegister(address, s + i - 1) ELSE 0] :
                kept \in SUBSET offsets}
        \cup {[i \in 1..(e - s + 1) |-> None]}

InitReconcile ==
    /\ pc = "config"
    /\ crash = "none"
    /\ minor_poll_index \in {0, 1}
    /\ major_poll_index = minor_poll_index
    /\ config_file \in [status : {"ok"}, actuators : ConfigFiles]
    /\ board_config = config_file.actuators
    /\ enabled_boards = EnabledBoards(CfgA)
    /\ heartbeat_armed = FALSE
    /\ msg_age = 0
    /\ honour_accel_config \in BOOLEAN
    /\ udp_input_enabled = honour_accel_config
    /\ port_enabled = [left |-> TRUE, right |-> TRUE]
    /\ port_boards = [left |-> PortBoards(CfgA, "Left"),
                      right |-> PortBoards(CfgA, "Right")]
    /\ \E r \in Answers(enabled_boards[minor_poll_index + 1]) :
           shadow_map = ShadowSetRange(
               [p \in Ports |-> [a \in port_boards[p] |-> <<>>]],
               enabled_boards[minor_poll_index + 1], MB_MOTOR_SETPOINT, r)
    /\ write_queue \in {[p \in Ports |-> [a \in port_boards[p] |-> q]] :
                           q \in {<<>>, << <<MB_ESTOP, 1>> >>}}
    /\ incoming_queue = <<>>
    /\ valid_msg_received = FALSE
    /\ rx = <<>>
    /\ flush_index = 1
    /\ written_offsets = {}
    /\ flush_snapshot = [p \in Ports |-> [a \in port_boards[p] |-> <<>>]]
    /\ sent = <<>>
    /\ bus_writes = <<>>
    /\ fault_budget = 0
    /\ send_every_write = SEND_EVERY_WRITE
    /\ outgoing_queue = <<>>
    /\ slept = FALSE
    /\ hp_log = <<>>
    /\ playing = FALSE
    /\ SequencerIdle
    /\ tripped = FALSE
    /\ reread = [done |-> FALSE, ticks |-> 0]
    /\ full_log = << <<>> >>
    /\ acc = NoAccess
    /\ arg = NoCall
    /\ res = NoResult

NextReconcile == UpdateBoardConfig

SpecReconcile == InitReconcile /\ [][NextReconcile]_vars

(***************************************************************************)
(* Properties.                                                             *)
(***************************************************************************)
Boards == Range(enabled_boards)
\* the queue, or the shadow map, that the port of a board holds for it
QueueOf(wq, address) == wq[get_port_for_address(address)][address]
Abs(n) == IF n < 0 THEN -n ELSE n
Sign(n) == IF n < 0 THEN -1 ELSE IF n > 0 THEN 1 ELSE 0

\* a step of the receive loop that takes a datagram off the socket and goes
\* on, and the datagram it takes
Receives == pc = "recv" /\ pc' = "recv" /\ Len(rx') = Len(rx) + 1
Taken == rx'[Len(rx')]

\* the entry is added at the end of the queue of every board
AppendedToAll(entry) ==
    \A a \in Boards : QueueOf(write_queue', a) = Append(QueueOf(write_queue, a), entry)

\* the value the last entry of q at write_offset carries
LastValue(q, write_offset) ==
    LET at == {i \in 1..Len(q) : q[i][1] = write_offset}
    IN  q[CHOOSE i \in at : \A k \in at : k <= i][2]

\* the write_reg calls of the tick for a register of a board
WritesTo(address, write_offset) ==
    SelectSeq(bus_writes, LAMBDA w : w[1] = address /\ w[2] = write_offset)

\* C1: when flush_write_queue has returned, every register of every enabled
\* board that the queues held one or more entries for when the flush was
\* entered has been written exactly once, with the value of the last of
\* those entries.
C1_FlushWritesLastValueOnce ==
    pc = "advance" =>
        \A a \in Boards :
            LET q == QueueOf(flush_snapshot, a)
            IN  \A i \in 1..Len(q) :
                    /\ Len(WritesTo(a, q[i][1])) = 1
                    /\ WritesTo(a, q[i][1])[1][3] = LastValue(q, q[i][1])

\* a flush has returned that found two entries with different values for
\* one register of a board
C1_Witness ==
    /\ pc = "advance"
    /\ \E a \in Boards :
           LET q == QueueOf(flush_snapshot, a)
           IN  \E i, k \in 1..Len(q) :
                   i < k /\ q[i][1] = q[k][1] /\ q[i][2] # q[k][2]

\* C2: the heartbeat check of a tick that finds the heartbeat armed, no valid
\* frame accepted in the tick and more than the timeout elapsed since the
\* last valid frame adds (MB_ESTOP, 1) to the queue of every enabled board.
C2_HeartbeatTimeoutEstopsAll ==
    [][(/\ pc = "heartbeat"
        /\ pc' # "heartbeat"
        /\ heartbeat_armed
        /\ ~valid_msg_received
        /\ msg_age > INCOMING_MSG_HEARTBEAT_TIMEOUT)
       => pc' = "hp" /\ AppendedToAll(<<MB_ESTOP, 1>>)]_vars

\* the check has just tripped: every queue ends with the estop
C2_Witness ==
    /\ pc = "hp"
    /\ heartbeat_armed
    /\ ~valid_msg_received
    /\ msg_age > INCOMING_MSG_HEARTBEAT_TIMEOUT
    /\ \A a \in Boards :
           /\ Len(QueueOf(write_queue, a)) > 0
           /\ QueueOf(write_queue, a)[Len(QueueOf(write_queue, a))] = <<MB_ESTOP, 1>>

\* the datagram is the frame [0, MB_ESTOP, value] for some value
BroadcastEstop(d) ==
    Len(d) = 6 /\ SubSeq(d, 1, 4) = JoinSigned(<<0, MB_ESTOP>>)

NoWriteToBoardZero == \A i \in 1..Len(bus_writes) : bus_writes[i][1] # 0

\* C3 as stated: every frame [0, MB_ESTOP, value] taken off the socket adds an
\* estop write to the queue of every enabled board, and no write_reg call is
\* for address 0.
C3_BroadcastEstopAlways ==
    /\ [][Receives /\ BroadcastEstop(Taken) => AppendedToAll(<<MB_ESTOP, 1>>)]_vars
    /\ []NoWriteToBoardZero

\* C3: while UDP input is enabled, every frame [0, MB_ESTOP, value] taken off
\* the socket adds an estop write to the queue of every enabled board; and no
\* write_reg call is ever for address 0.
C3_BroadcastEstopWhileUdpEnabled ==
    /\ [][Receives /\ BroadcastEstop(Taken) /\ udp_input_enabled
              => AppendedToAll(<<MB_ESTOP, 1>>)]_vars
    /\ []NoWriteToBoardZero

\* a broadcast estop of value -1 has been taken with UDP input enabled and
\* every queue holds the estop
C3_Witness ==
    /\ pc = "recv"
    /\ udp_input_enabled
    /\ Len(rx) > 0
    /\ rx[Len(rx)] = JoinSigned(<<0, MB_ESTOP, -1>>)
    /\ \A a \in Boards : QueueOf(write_queue, a) = << <<MB_ESTOP, 1>> >>

\* the datagram is the frame [0, MB_RESET_ESTOP, value] for some value
BroadcastReset(d) ==
    Len(d) = 6 /\ SubSeq(d, 1, 4) = JoinSigned(<<0, MB_RESET_ESTOP>>)

\* C7: a frame [0, MB_RESET_ESTOP, value] taken off the socket leaves every
\* queue as it was unless the value is 0x5050, and when it changes a queue it
\* adds (MB_RESET_ESTOP, 0x5050) to the queue of every enabled board.
C7_BroadcastResetNeedsMagic ==
    [][Receives /\ BroadcastReset(Taken) =>
          /\ Taken # JoinSigned(<<0, MB_RESET_ESTOP, RESET_MAGIC>>)
                 => write_queue' = write_queue
          /\ write_queue' # write_queue
                 => AppendedToAll(<<MB_RESET_ESTOP, RESET_MAGIC>>)]_vars

\* a broadcast reset of value 0x5050 has been taken and every queue holds it
C7_Witness ==
    /\ pc = "recv"
    /\ Len(rx) > 0
    /\ rx[Len(rx)] = JoinSigned(<<0, MB_RESET_ESTOP, RESET_MAGIC>>)
    /\ \A a \in Boards :
           QueueOf(write_queue, a) = << <<MB_RESET_ESTOP, RESET_MAGIC>> >>

\* C8: a datagram of odd length taken off the socket changes nothing of the
\* manager: no queue, not the armed flag, not the time of the last message
\* (nor the flag that would refresh it), no shadow register, and nothing is
\* sent.
C8_OddLengthChangesNothing ==
    [][pc = "recv" /\ Len(rx') = Len(rx) + 1 /\ Len(Taken) % 2 = 1 =>
          /\ pc' = "recv"
          /\ UNCHANGED <<write_queue, heartbeat_armed, msg_age, valid_msg_received,
                         sent, bus_writes, shadow_map, incoming_queue,
                         board_config, udp_input_enabled, honour_accel_config,
                         minor_poll_index, major_poll_index>>]_vars

\* a datagram of odd length that starts as a broadcast estop has been taken
\* while UDP input is enabled
C8_Witness ==
    /\ pc = "recv"
    /\ udp_input_enabled
    /\ Len(rx) > 0
    /\ rx[Len(rx)] = JoinSigned(<<0, MB_ESTOP, 0>>) \o <<1>>

\* C6 as stated: no exception of the bus connection ends main_poll_loop.
C6_BusFailureNeverAborts == ~(pc = "crashed" /\ crash = "BusException")

\* C5 as stated: a call on an enabled port makes at most max_retries attempts
\* whatever each attempt does, returns, and returns no response when every
\* attempt failed.
C5_AtMostMaxRetriesAttempts ==
    acc.enabled =>
        /\ Len(acc.log) <= MAX_RETRIES
        /\ acc.pc # "raised"
        /\ acc.pc = "returned" /\ "response" \notin Range(acc.log)
               => acc.response = NoResponse

\* C4: sanity_check_command(offset, v) returns the offset with sign(v) * 60
\* when the offset is MB_MOTOR_SETPOINT and |v| > 60, and with v otherwise.
C4_ClampSetpoint ==
    res.done /\ arg.fn = "sanity_check_command" =>
        res.val = <<arg.x,
                    IF arg.x = MB_MOTOR_SETPOINT /\ Abs(arg.y) > 60
                    THEN Sign(arg.y) * 60 ELSE arg.y>>

\* a setpoint of -61 has been clamped to -60
C4_Witness ==
    /\ res.done
    /\ arg.fn = "sanity_check_command"
    /\ arg.x = MB_MOTOR_SETPOINT
    /\ arg.y = -61
    /\ res.val = <<MB_MOTOR_SETPOINT, -60>>

\* the pairs (arg.y, arg.z[1]), (arg.y + 1, arg.z[2]), ...
ExpectedPairs == [i \in 1..Len(arg.z) |-> <<arg.y + i - 1, arg.z[i]>>]

\* the packet of a failed read decodes to (address, 10000, s, 10001, e)
FailedReadDecodes ==
    res.done /\ arg.fn = "read failed" =>
        /\ res.val.address = arg.x
        /\ res.val.pairs = << <<READ_ERROR_START, arg.y>>,
                              <<READ_ERROR_END, arg.y + Len(arg.z) - 1>> >>

\* C9 as stated: the packet of an answered read decodes to the address and
\* the (offset, value) pairs of the read for every list of 16-bit values, and
\* the packet of a failed read to (address, 10000, s, 10001, e).
C9_RoundTripEveryValue ==
    /\ res.done /\ arg.fn = "read answered" =>
           res.val.address = arg.x /\ res.val.pairs = ExpectedPairs
    /\ FailedReadDecodes

\* C9: the packet of an answered read decodes to the address and the (offset,
\* value) pairs of the read when every value is below 32768, and the packet
\* of a failed read to (address, 10000, s, 10001, e).
C9_RoundTripBelow32768 ==
    /\ (/\ res.done
        /\ arg.fn = "read answered"
        /\ \A i \in 1..Len(arg.z) : arg.z[i] < 32768)
           => res.val.address = arg.x /\ res.val.pairs = ExpectedPairs
    /\ FailedReadDecodes

\* two registers, the second the largest value below 32768, read back
C9_Witness ==
    /\ res.done
    /\ arg.fn = "read answered"
    /\ arg.x = 5
    /\ arg.z = <<10, 32767>>
    /\ res.val.pairs = << <<arg.y, 10>>, <<arg.y + 1, 32767>> >>

\* the actuator of the configuration for the board of the tick
Configured == CHOOSE b \in Range(board_config) : b.address = poll_address

\* the registers of ConfigRegs, out of those of regs, whose key the actuator
\* holds with a value that differs from the shadow map
Differing(regs) ==
    {i \in regs :
        /\ Configured[ConfigRegs[i][2]] # Missing
        /\ ShadowGet(shadow_map, poll_address, ConfigRegs[i][1])
               # Configured[ConfigRegs[i][2]]}

\* what update_board_config adds to the queues when 'differing' differ
QueuesFor(differing) ==
    /\ differing = {} => write_queue' = write_queue
    /\ Cardinality(differing) = 1 =>
           \A i \in differing :
               /\ QueueOf(write_queue', poll_address) =
                      Append(QueueOf(write_queue, poll_address),
                             <<ConfigRegs[i][1], Configured[ConfigRegs[i][2]]>>)
               /\ \A a \in Boards \ {poll_address} :
                      QueueOf(write_queue', a) = QueueOf(write_queue, a)

\* the configuration registers update_board_config looks at
Reconciled ==
    {i \in 1..Len(ConfigRegs) :
        honour_accel_config \/ ConfigRegs[i][1] # MB_MOTOR_ACCEL}

\* C10 as stated: update_board_config queues nothing when no configured
\* parameter differs from the shadow map, and one write of the configured
\* value at the offset of the parameter when exactly one differs.
C10_ReconcileEveryParameter ==
    [][pc = "config" /\ pc' = "flush" => QueuesFor(Differing(1..Len(ConfigRegs)))]_vars

\* C10: the same, of the parameters update_board_config looks at: the
\* acceleration only while the configuration is honoured for it.
C10_ReconcileHonouredParameters ==
    [][pc = "config" /\ pc' = "flush" => QueuesFor(Differing(Reconciled))]_vars

\* update_board_config has queued the one write of the outward current limit
\* that the second configuration file changes
C10_Witness ==
    /\ pc = "flush"
    /\ board_config = CfgB
    /\ minor_poll_index = 0
    /\ QueueOf(write_queue, 1) = << <<MB_CURRENT_LIMIT_OUTWARD, 45>> >>

\* the positions of main_poll_loop at which it calls query_and_forward, and
\* the range it reads there
ReadPositions == {"hp", "full1", "full2", "full3"}
ReadStart ==
    CASE pc = "full1" -> MB_BRIDGE_CURRENT
      [] pc = "full2" -> MB_MOTOR_SETPOINT
      [] pc = "full3" -> MB_INWARD_ENDSTOP_COUNT
      [] OTHER -> MB_EXTENSION
ReadEnd ==
    CASE pc = "full1" -> MB_BOARD_TEMPERATURE
      [] pc = "full2" -> MB_POSITION_ENCODER_SCALING
      [] pc = "full3" -> MB_EXTENSION_TRIPS_OUTWARD
      [] OTHER -> MB_INWARD_ENDSTOP_STATE

\* a call of query_and_forward that returns, its read not answered / answered
ReadFails == pc \in ReadPositions /\ pc' # "crashed" /\ fault_budget' < fault_budget
ReadSucceeds == pc \in ReadPositions /\ pc' # "crashed" /\ fault_budget' = fault_budget

\* the shadow maps after the step are those before it, but for value(o) at
\* the offsets ReadStart..ReadEnd of the board of the tick
ShadowBecomes(value(_)) ==
    \A a \in Boards :
        LET old == QueueOf(shadow_map, a)
            new == QueueOf(shadow_map', a)
            read == IF a = poll_address THEN ReadStart..ReadEnd ELSE {}
        IN  /\ DOMAIN new = (DOMAIN old) \cup read
            /\ \A o \in DOMAIN new : new[o] = IF o \in read THEN value(o) ELSE old[o]

\* C11: a call of query_and_forward whose read of s..e returns no response
\* sends the one datagram [address, 10000, s, 10001, e] and sets the shadow
\* map of the board to None at every offset of s..e, and changes no other
\* shadow value.
C11_FailedReadErrorFrame ==
    [][ReadFails =>
          /\ sent' = Append(sent, Join(<<poll_address, 10000, ReadStart, 10001, ReadEnd>>))
          /\ LET unknown(o) == None IN ShadowBecomes(unknown)]_vars

\* the high priority read of board 1 has failed
C11_Witness ==
    /\ pc = "flush"
    /\ minor_poll_index = 0
    /\ sent = <<Join(<<1, 10000, MB_EXTENSION, 10001, MB_INWARD_ENDSTOP_STATE>>)>>
    /\ \A o \in MB_EXTENSION..MB_INWARD_ENDSTOP_STATE : ShadowGet(shadow_map, 1, o) = None

\* the words of the datagram for registers regs read from start_offset
TelemetryWords(address, start_offset, regs) ==
    [i \in 1..(2 * Len(regs) + 1) |->
        IF i = 1 THEN address
        ELSE IF i % 2 = 0 THEN start_offset + (i \div 2) - 1
        ELSE regs[(i - 1) \div 2]]

\* C12: a call of query_and_forward whose read of s..e is answered sends the
\* one datagram [address, s, value_0, s + 1, value_1, ...] of every register
\* read and sets the shadow map of the board at each s + i to value_i, and
\* changes no other shadow value.
C12_AnsweredReadTelemetryFrame ==
    [][ReadSucceeds =>
          LET regs == ReadResponse(poll_address, ReadStart, ReadEnd)
              read(o) == regs[o - ReadStart + 1]
          IN  /\ sent' = Append(sent, Join(TelemetryWords(poll_address, ReadStart, regs)))
              /\ ShadowBecomes(read)]_vars

\* the second read of the full read of board 1 has been answered: the shadow
\* map holds the current limits of the board
C12_Witness ==
    /\ pc = "full3"
    /\ minor_poll_index = 0
    /\ Len(sent) > 0
    /\ sent[Len(sent)] = Join(TelemetryWords(1, MB_MOTOR_SETPOINT,
                                  ReadResponse(1, MB_MOTOR_SETPOINT, MB_POSITION_ENCODER_SCALING)))
    /\ ShadowGet(shadow_map, 1, MB_CURRENT_LIMIT_INWARD) = 30
    /\ ShadowGet(shadow_map, 1, MB_CURRENT_LIMIT_OUTWARD) = 40

\* a step of flush_write_queue that calls write_reg and goes on, and the
\* write it makes
Writes == pc = "flush" /\ pc' = "flush" /\ Len(bus_writes') = Len(bus_writes) + 1
Written == bus_writes'[Len(bus_writes')]

\* C13: every write_reg call of the flush that returns is followed by one
\* datagram: [address, offset, value] of the response when there is one, and
\* [address, 10002, offset] when there is none, the shadow register of
\* (address, offset) then being None.
C13_OneResultFramePerWrite ==
    [][Writes =>
          IF fault_budget' < fault_budget
          THEN /\ sent' = Append(sent, Join(<<Written[1], 10002, Written[2]>>))
               /\ ShadowGet(shadow_map', Written[1], Written[2]) = None
          ELSE sent' = Append(sent, Join(<<Written[1], Written[2], Written[3] % 65536>>))]_vars

\* a write has been acknowledged and another has failed in one flush
C13_Witness ==
    /\ pc = "flush"
    /\ \E i, k \in 1..Len(sent) : \E w, x \in Range(bus_writes) :
           /\ sent[i] = Join(<<w[1], w[2], w[3] % 65536>>)
           /\ sent[k] = Join(<<x[1], 10002, x[2]>>)
           /\ ShadowGet(shadow_map, x[1], x[2]) = None

\* C15 as stated: after a write_reg call of the flush is answered, the shadow
\* register of (address, offset) holds the value of the response.
C15_AcknowledgedWriteUpdatesShadow ==
    [][Writes /\ fault_budget' = fault_budget =>
          ShadowGet(shadow_map', Written[1], Written[2]) = Written[3] % 65536]_vars

\* a step of flush_write_queue that pops an entry off the queue of the board
\* and goes on, and the entry it pops
Pops ==
    /\ pc = "flush"
    /\ pc' = "flush"
    /\ flush_index <= Len(enabled_boards)
    /\ Len(QueueOf(write_queue', flush_address)) = Len(QueueOf(write_queue, flush_address)) - 1
Popped == QueueOf(write_queue, flush_address)[Len(QueueOf(write_queue, flush_address))]

\* C14 as stated: with SEND_EVERY_WRITE off, an entry popped by the flush that
\* is not superseded and whose value the shadow map holds makes no write_reg
\* call and still sends one datagram for it.
C14_SkippedWriteStillReported ==
    [][(/\ Pops
        /\ ~send_every_write
        /\ Popped[1] \notin written_offsets
        /\ Popped[2] = ShadowGet(shadow_map, flush_address, Popped[1]))
       => bus_writes' = bus_writes /\ Len(sent') = Len(sent) + 1]_vars

\* C16: a call of read_regs or write_reg on a transport built with no serial
\* port, or with a port whose opening raised, never calls mb_conn.execute,
\* holds no response, and returns after one inter-frame delay; self.enabled
\* never changes after the construction.
C16_DisabledTransportNoAttempts ==
    /\ [](acc.serial_port # "opens" =>
             /\ ~acc.enabled
             /\ acc.log = <<>>
             /\ acc.response = NoResponse
             /\ acc.pc \in {"sleep", "returned"}
             /\ acc.sleeps = IF acc.pc = "returned" THEN 1 ELSE 0)
    /\ [][acc.enabled' = acc.enabled]_vars

\* a write on a transport built with no serial port has returned
C16_Witness ==
    /\ acc.serial_port = "None"
    /\ acc.request.command = "write"
    /\ acc.pc = "returned"
    /\ acc.sleeps = 1
    /\ AccessEnding(acc) = "none"

\* C17 as stated: the list of boards polled and written, and the boards of
\* each port, are those of the enabled actuators of the configuration in
\* effect, after a reload as after the construction.
C17_ActiveListFollowsReload ==
    /\ enabled_boards = EnabledBoards(board_config)
    /\ port_boards = [left |-> PortBoards(board_config, "Left"),
                      right |-> PortBoards(board_config, "Right")]

\* C18 as stated: when main_poll_loop has done its bookkeeping and takes the
\* two addresses of the tick, both poll indexes are below the length of the
\* list of boards, whatever that length is.
C18_PollIndexesValid ==
    [][pc = "idle" /\ pc' # "idle" =>
          /\ minor_poll_index' < Len(enabled_boards')
          /\ major_poll_index' < Len(enabled_boards')]_vars

\* C19 as stated: every address of the list of boards resolves through
\* get_port_for_address to a transport that holds a write queue and a shadow
\* map for it.
C19_EveryBoardHasItsTransport ==
    \A a \in Range(enabled_boards) :
        /\ get_port_for_address(a) \in Ports
        /\ a \in DOMAIN write_queue[get_port_for_address(a)]
        /\ a \in DOMAIN shadow_map[get_port_for_address(a)]

\* C20 as stated: a tick that reads the configuration file, after the
\* construction or at a later wrap of the major index, and cannot read or
\* parse it keeps the configuration it had and goes on.
C20_FailedReadKeepsConfigAndRuns ==
    [][(/\ pc = "idle"
        /\ pc' # "idle"
        /\ major_poll_index' = 0
        /\ (minor_poll_index >= Len(enabled_boards) \/ major_poll_index >= Len(enabled_boards))
        /\ config_file.status # "ok")
       => board_config' = board_config /\ pc' = "recv"]_vars

\* C21 as stated: when the worker leaves its loop on a QUIT message, an
\* estop write has been sent to the transport of every enabled board (a
\* write_reg of MB_ESTOP on its bus) since the message was taken.
C21_QuitEstopsBeforeExit ==
    [][pc # "exited" /\ pc' = "exited" =>
          \A a \in Range(enabled_boards) :
              \E i \in 1..Len(bus_writes') :
                  bus_writes'[i][1] = a /\ bus_writes'[i][2] = MB_ESTOP]_vars

\* the entries that the triples of q for the board 'address' add to its queue
RECURSIVE EntriesFor(_, _)
EntriesFor(address, q) ==
    IF Len(q) = 0 THEN <<>>
    ELSE (IF Head(q)[1] = address
          THEN <<sanity_check_command(Head(q)[2], Head(q)[3])>> ELSE <<>>)
         \o EntriesFor(address, Tail(q))

\* C22 as stated: process_incoming_queue takes every triple off the direct
\* queue, queues the triples of the enabled boards and no other, and the
\* tick goes on, whatever the addresses of the triples are.
C22_UnknownAddressDropped ==
    [][pc = "direct" /\ pc' # "direct" =>
          /\ pc' = "heartbeat"
          /\ incoming_queue' = <<>>
          /\ \A p \in Ports : \A a \in port_boards[p] :
                 write_queue'[p][a] =
                     write_queue[p][a] \o EntriesFor(a, incoming_queue)]_vars

\* C23 as stated: the packets put on the outgoing queue in a tick are the
\* packets of the datagrams sent on the output socket in that tick, read and
\* write results alike, one for one and in the same order.
C23_OutgoingQueueMirrorsSocket ==
    /\ Len(outgoing_queue) = Len(sent)
    /\ \A i \in 1..Len(sent) : Join(outgoing_queue[i]) = sent[i]

\* a recvfrom of the receive loop returns a datagram
Recv == pc = "recv" /\ Len(rx') = Len(rx) + 1

\* the datagram has an even length and the heartbeat address
HeartbeatFrame(d) ==
    Len(d) % 2 = 0 /\ Len(d) >= 2 /\ FromBytes(SubSeq(d, 1, 2)) = HEARTBEAT_ADDRESS

\* process_incoming_packet returns True: lines 490-492 arm the heartbeat and
\* take the time
ValidArms ==
    [][pc = "recv" /\ pc' = "direct" /\ valid_msg_received
          => heartbeat_armed' /\ msg_age' = 0]_vars

\* C24 as stated: every frame of even length for the heartbeat address makes
\* process_incoming_packet return True, which arms the heartbeat and takes
\* the time, and leaves every write queue as it was.
C24_HeartbeatFrameAlways ==
    /\ [][Recv /\ HeartbeatFrame(Taken) =>
              pc' = "recv" /\ valid_msg_received' /\ write_queue' = write_queue]_vars
    /\ ValidArms

\* C24: while UDP input is enabled, every frame of even length for the
\* heartbeat address makes process_incoming_packet return True, which arms
\* the heartbeat and takes the time, and leaves every write queue as it was.
C24_HeartbeatFrameWhileUdpEnabled ==
    /\ [][Recv /\ HeartbeatFrame(Taken) /\ udp_input_enabled =>
              pc' = "recv" /\ valid_msg_received' /\ write_queue' = write_queue]_vars
    /\ ValidArms

\* a frame for the heartbeat address that carries an estop pair has been
\* taken with UDP input enabled: the call will return True and no queue
\* holds an entry
C24_Witness ==
    /\ pc = "recv"
    /\ udp_input_enabled
    /\ ~heartbeat_armed
    /\ rx = <<JoinSigned(<<HEARTBEAT_ADDRESS, MB_ESTOP, 1>>)>>
    /\ valid_msg_received
    /\ \A a \in Boards : QueueOf(write_queue, a) = <<>>

\* C25: a datagram whose address is not 0, not the heartbeat address and not
\* an enabled board leaves every write queue, the flag that a valid message
\* was received, the armed flag and the time of the last message as they
\* were, and the receive loop goes on.
C25_OtherAddressDropped ==
    [][(/\ Recv
        /\ Len(Taken) >= 2
        /\ FromBytes(SubSeq(Taken, 1, 2)) \notin Boards \cup {0, HEARTBEAT_ADDRESS})
       => /\ pc' = "recv"
          /\ UNCHANGED <<write_queue, valid_msg_received, heartbeat_armed, msg_age>>]_vars

\* a frame for board 3, which the configuration lists as disabled, has been
\* taken with UDP input enabled
C25_Witness ==
    /\ pc = "recv"
    /\ udp_input_enabled
    /\ rx = <<JoinSigned(<<3, MB_MOTOR_SETPOINT, 10>>)>>
    /\ ~valid_msg_received
    /\ \A a \in Boards : QueueOf(write_queue, a) = <<>>

\* the entries that the accepted pairs of a broadcast frame add to a queue
RECURSIVE BroadcastEntries(_)
BroadcastEntries(pairs) ==
    IF Len(pairs) = 0 THEN <<>>
    ELSE (IF Head(pairs)[1] = MB_ESTOP THEN << <<MB_ESTOP, 1>> >>
          ELSE IF Head(pairs) = <<MB_RESET_ESTOP, RESET_MAGIC>>
          THEN << <<MB_RESET_ESTOP, RESET_MAGIC>> >>
          ELSE <<>>)
         \o BroadcastEntries(Tail(pairs))

\* the offset/value pairs of a datagram, the offset unsigned, the value signed
RECURSIVE PairsOf(_)
PairsOf(d) ==
    IF Len(d) < 6 THEN <<>>
    ELSE << <<FromBytes(SubSeq(d, 3, 4)), FromBytesSigned(SubSeq(d, 5, 6))>> >>
         \o PairsOf(SubSeq(d, 1, 2) \o SubSeq(d, 7, Len(d)))

\* C26: a pair of a broadcast frame that is neither an estop nor a reset of
\* value 0x5050 adds nothing to any queue and does not make the frame a
\* valid message: a frame of such pairs only changes nothing, and in a frame
\* that also carries accepted pairs the queues receive the entries of the
\* accepted pairs and no other.
C26_RejectedBroadcastPairChangesNothing ==
    [][(/\ Recv
        /\ Len(Taken) % 2 = 0
        /\ Len(Taken) >= 2
        /\ FromBytes(SubSeq(Taken, 1, 2)) = 0)
       => /\ pc' = "recv"
          /\ BroadcastEntries(PairsOf(Taken)) = <<>>
                 => UNCHANGED <<write_queue, valid_msg_received, heartbeat_armed,
                                msg_age>>
          /\ udp_input_enabled
                 => \A a \in Boards :
                        QueueOf(write_queue', a) =
                            QueueOf(write_queue, a) \o BroadcastEntries(PairsOf(Taken))]_vars

\* a broadcast frame with the offset MB_MOTOR_SETPOINT has been taken with
\* UDP input enabled
C26_Witness ==
    /\ pc = "recv"
    /\ udp_input_enabled
    /\ rx = <<JoinSigned(<<0, MB_MOTOR_SETPOINT, 10>>)>>
    /\ ~valid_msg_received
    /\ \A a \in Boards : QueueOf(write_queue, a) = <<>>

\* the entries at MB_MOTOR_ACCEL that the step adds to the queue of a board
NewAccelEntries(a) ==
    SelectSeq(SubSeq(QueueOf(write_queue', a), Len(QueueOf(write_queue, a)) + 1,
                     Len(QueueOf(write_queue', a))),
              LAMBDA e : e[1] = MB_MOTOR_ACCEL)

\* the configured acceleration of the board differs from its shadow register
AccelDiffers ==
    /\ Configured.acceleration # Missing
    /\ ShadowGet(shadow_map, poll_address, MB_MOTOR_ACCEL) # Configured.acceleration

\* C27: while honour_accel_config is False, update_board_config adds no entry
\* at MB_MOTOR_ACCEL to any queue, whatever the shadow register and the
\* configured acceleration; while it is True it adds one entry, of the
\* configured acceleration, to the queue of the board when the two differ
\* and none when they do not.
C27_AccelReconciledOnlyWhenHonoured ==
    [][pc = "config" /\ pc' = "flush" =>
          /\ ~honour_accel_config =>
                 \A a \in Boards : NewAccelEntries(a) = <<>>
          /\ honour_accel_config =>
                 /\ NewAccelEntries(poll_address) =
                        IF AccelDiffers
                        THEN << <<MB_MOTOR_ACCEL, Configured.acceleration>> >>
                        ELSE <<>>
                 /\ \A a \in Boards \ {poll_address} : NewAccelEntries(a) = <<>>]_vars

\* update_board_config has returned with honour_accel_config False and the
\* shadow acceleration of the board different from the configured one
C27_Witness ==
    /\ pc = "flush"
    /\ ~honour_accel_config
    /\ ShadowGet(shadow_map, poll_address, MB_MOTOR_ACCEL) = 0
    /\ (CHOOSE b \in Range(board_config) : b.address = poll_address).acceleration = 100
    /\ \A i \in 1..Len(QueueOf(write_queue, poll_address)) :
           QueueOf(write_queue, poll_address)[i][1] # MB_MOTOR_ACCEL

\* C28 as stated: a tick ends with the sleep of line 520 when both ports are
\* disabled, and only then.
C28_SpinSleepIffBothDisabled ==
    [][pc = "advance" /\ pc' = "idle" =>
          (slept' <=> (~port_enabled["left"] /\ ~port_enabled["right"]))]_vars

\* C29 as stated: in a call on an enabled port the inter-frame delay has been
\* waited after every bus attempt but the one just made, so that a delay
\* lies between any two consecutive attempts; and the call returns with one
\* delay waited for each attempt.
C29_DelayAfterEveryAttempt ==
    acc.enabled =>
        /\ Len(acc.log) <= acc.sleeps + 1
        /\ acc.pc = "returned" => acc.sleeps = Len(acc.log)

\* the packets of the tick that report a read of the high priority range,
\* answered or not
HighPriorityPackets ==
    SelectSeq(outgoing_queue,
              LAMBDA packet : \/ packet[2] = MB_EXTENSION
                              \/ packet[2] = READ_ERROR_START /\ packet[3] = MB_EXTENSION)

\* C30: a tick that reaches its end has read the high priority range once,
\* of the board at minor_poll_index and of no other; and the boards of the
\* last N high priority reads, N the number of enabled boards, are the N
\* enabled boards, each once.
C30_HighPriorityRoundRobin ==
    /\ pc = "advance" =>
           /\ Len(HighPriorityPackets) = 1
           /\ HighPriorityPackets[1][1] = enabled_boards[minor_poll_index + 1]
    /\ Len(hp_log) = Len(enabled_boards) =>
           /\ Range(hp_log) = Range(enabled_boards)
           /\ \A i, k \in 1..Len(hp_log) : hp_log[i] = hp_log[k] => i = k

\* with three enabled boards, a tick ends whose high priority read was of
\* the first board, the two before it of the second and the third
C30_Witness ==
    /\ pc = "advance"
    /\ enabled_boards = <<1, 2, 3>>
    /\ hp_log = <<2, 3, 1>>

(***************************************************************************)
(* The full read round robin                                               *)
(***************************************************************************)
Distinct(boards) == \A i, k \in 1..Len(boards) : boards[i] = boards[k] => i = k

\* the minor sweep in progress has run its last tick
SweepDone == pc = "idle" /\ minor_poll_index >= Len(enabled_boards)

\* C31: with N distinct active boards, the three full reads and the
\* reconciliation of a tick are for the board at the major cursor; every
\* finished minor sweep has done them for exactly that one board, the sweep
\* in progress for that board or for none yet; and the N sweeps of a major
\* cycle have done them for every active board exactly once
C31_OneFullReadPerSweep ==
    Distinct(enabled_boards) =>
        /\ pc \in {"full1", "full2", "full3", "config"} =>
               /\ minor_poll_index = major_poll_index
               /\ poll_address = enabled_boards[major_poll_index + 1]
        /\ Len(full_log) = major_poll_index + 1
        /\ \A j \in 1..(Len(full_log) - 1) : full_log[j] = <<enabled_boards[j]>>
        /\ full_log[Len(full_log)] \in {<<>>, <<enabled_boards[Len(full_log)]>>}
        /\ SweepDone => full_log[Len(full_log)] = <<enabled_boards[Len(full_log)]>>
        /\ SweepDone /\ Len(full_log) = Len(enabled_boards) =>
               /\ {full_log[j][1] : j \in 1..Len(full_log)} = Range(enabled_boards)
               /\ \A j, k \in 1..Len(full_log) :
                      full_log[j][1] = full_log[k][1] => j = k

\* three sweeps over three boards have fully read each of them once
C31_Witness ==
    /\ SweepDone
    /\ enabled_boards = <<1, 2, 3>>
    /\ full_log = << <<1>>, <<2>>, <<3>> >>

(***************************************************************************)
(* Re-reading the configuration file                                       *)
(***************************************************************************)
\* the bookkeeping of a tick
TickBegins == pc = "idle" /\ pc' # "idle"

\* the major cursor is on the last board and its minor sweep is finished
MajorCursorWraps ==
    /\ minor_poll_index >= Len(enabled_boards)
    /\ major_poll_index + 1 >= Len(enabled_boards)

\* C32: a tick re-reads the configuration file exactly when its bookkeeping
\* wraps the major cursor to 0; N*N ticks have begun since the file was last
\* read when that happens, and never more than N*N at any time
C32_RereadWhenMajorWraps ==
    [][TickBegins =>
          /\ reread'.done <=> MajorCursorWraps
          /\ reread'.done =>
                 /\ major_poll_index' = 0
                 /\ minor_poll_index' = 0
                 /\ reread.ticks = Len(enabled_boards) * Len(enabled_boards)
          /\ reread'.ticks <= Len(enabled_boards) * Len(enabled_boards)
          /\ reread'.done => board_config' = read_board_config_file
          /\ ~reread'.done => board_config' = board_config]_vars

\* the tenth tick over three boards has just re-read the file
C32_Witness ==
    /\ pc = "recv"
    /\ Len(enabled_boards) = 3
    /\ reread = [done |-> TRUE, ticks |-> 1]
    /\ major_poll_index = 0
    /\ minor_poll_index = 0

(***************************************************************************)
(* What flush_write_queue leaves behind                                    *)
(***************************************************************************)
\* the flush has returned
Flushed == pc = "advance"

\* entry i of q is followed by an entry for the same register
SupersededIn(q, i) == \E k \in (i + 1)..Len(q) : q[k][1] = q[i][1]

\* C33: when flush_write_queue has returned the queue of every board is
\* empty, and every entry the queues held when the flush was entered was
\* either handed to write_reg in this tick or followed by a later entry for
\* the same register; no step of the flush adds an entry to a queue,
\* whatever the bus answers
C33_FlushLeavesQueuesEmpty ==
    /\ [](Flushed =>
            \A a \in Boards :
                /\ QueueOf(write_queue, a) = <<>>
                /\ LET q == QueueOf(flush_snapshot, a)
                   IN  \A i \in 1..Len(q) :
                           \/ <<a, q[i][1], q[i][2]>> \in Range(bus_writes)
                           \/ SupersededIn(q, i))
    /\ [][pc = "flush" =>
              \A a \in Boards :
                  Len(QueueOf(write_queue', a)) <= Len(QueueOf(write_queue, a))]_vars

\* a flush has returned in which a write failed and an entry was superseded
C33_Witness ==
    /\ Flushed
    /\ \A a \in Boards : QueueOf(write_queue, a) = <<>>
    /\ \E a \in Boards :
           LET q == QueueOf(flush_snapshot, a)
           IN  \E i \in 1..Len(q) :
                   /\ SupersededIn(q, i)
                   /\ Join(<<a, WRITE_ERROR, q[i][1]>>) \in Range(sent)

(***************************************************************************)
(* The heartbeat after a timeout                                           *)
(***************************************************************************)
\* the heartbeat check of a tick
HeartbeatStep == pc = "heartbeat" /\ pc' # "heartbeat"

\* C34: the heartbeat check changes neither heartbeat_armed nor the time of
\* the last valid frame; once a check has timed out, and until a valid frame
\* is accepted or a reset or a UDP-disable is handled, the heartbeat stays
\* armed and timed out, and the check of every tick adds (MB_ESTOP, 1) to
\* the queue of every active board again
C34_TimeoutKeepsTripping ==
    /\ [](tripped => heartbeat_armed /\ msg_age > INCOMING_MSG_HEARTBEAT_TIMEOUT)
    /\ [][HeartbeatStep =>
              /\ heartbeat_armed' = heartbeat_armed
              /\ msg_age' = msg_age
              /\ tripped => pc' = "hp" /\ AppendedToAll(<<MB_ESTOP, 1>>)]_vars

\* the check of the tick after a timeout has queued the estop once more
C34_Witness ==
    /\ pc = "hp"
    /\ tripped
    /\ rx = <<>>
    /\ \A a \in Boards : QueueOf(write_queue, a) = << <<MB_ESTOP, 1>> >>

(***************************************************************************)
(* Reset and the heartbeat                                                 *)
(***************************************************************************)
\* reset_all_boards runs: for the console, or for a broadcast reset frame
\* taken while UDP input is enabled
ResetStep ==
    \/ GuiRESET
    \/ /\ Receives
       /\ udp_input_enabled
       /\ Taken = JoinSigned(<<0, MB_RESET_ESTOP, RESET_MAGIC>>)

\* process_incoming_packet returns having accepted a valid frame
ValidFrameTick == pc = "recv" /\ pc' = "direct" /\ valid_msg_received

\* C35: reset_all_boards adds (MB_RESET_ESTOP, 0x5050) to the queue of every
\* active board and disarms the heartbeat; the heartbeat becomes armed only
\* where process_incoming_packet returns with a valid frame accepted, a
\* frame counts as accepted only when it is taken off the socket, and the
\* heartbeat check of a tick that finds the heartbeat disarmed queues
\* nothing
C35_ResetDisarmsUntilValidFrame ==
    [][/\ ResetStep =>
              /\ AppendedToAll(<<MB_RESET_ESTOP, RESET_MAGIC>>)
              /\ ~heartbeat_armed'
       /\ ~heartbeat_armed /\ heartbeat_armed' => ValidFrameTick
       /\ ~valid_msg_received /\ valid_msg_received' =>
              pc = "recv" /\ Len(rx') = Len(rx) + 1 /\ udp_input_enabled
       /\ HeartbeatStep /\ ~heartbeat_armed =>
              pc' = "hp" /\ write_queue' = write_queue]_vars

\* after a reset of the console, a tick without a frame has passed its
\* heartbeat check long after the timeout and queued no estop
C35_Witness ==
    /\ pc = "hp"
    /\ ~heartbeat_armed
    /\ udp_input_enabled
    /\ msg_age > INCOMING_MSG_HEARTBEAT_TIMEOUT
    /\ \A a \in Boards :
           QueueOf(write_queue, a) = << <<MB_RESET_ESTOP, RESET_MAGIC>> >>

(***************************************************************************)
(* UDP input disabled                                                      *)
(***************************************************************************)
\* C39: udp_input(False) adds (MB_ESTOP, 1) to the queue of every active
\* board and disarms the heartbeat; while UDP input is disabled the
\* heartbeat is disarmed, a datagram taken off the socket changes no queue
\* and does not count as a valid frame, and the heartbeat check queues
\* nothing
C39_UdpDisabledDrainsAndStaysDisarmed ==
    /\ [](~udp_input_enabled => ~heartbeat_armed)
    /\ [][(GuiCSV =>
              /\ AppendedToAll(<<MB_ESTOP, 1>>)
              /\ ~heartbeat_armed'
              /\ ~udp_input_enabled')
          /\ (Receives /\ ~udp_input_enabled =>
                 /\ write_queue' = write_queue
                 /\ valid_msg_received' = valid_msg_received
                 /\ heartbeat_armed' = heartbeat_armed)
          /\ (HeartbeatStep /\ ~udp_input_enabled =>
                 pc' = "hp" /\ write_queue' = write_queue)]_vars

\* with UDP input disabled a setpoint frame has been taken off the socket,
\* and the queues hold the estop of udp_input(False) and nothing else
C39_Witness ==
    /\ pc = "recv"
    /\ ~udp_input_enabled
    /\ ~valid_msg_received
    /\ rx = <<JoinSigned(<<1, MB_MOTOR_SETPOINT, 70>>)>>
    /\ \A a \in Boards : QueueOf(write_queue, a) = << <<MB_ESTOP, 1>> >>

(***************************************************************************)
(* Motor setpoints                                                         *)
(***************************************************************************)
Capped(v) == -MAX_MOTOR_SPEED <= v /\ v <= MAX_MOTOR_SPEED

\* C36: every entry of a write queue for MB_MOTOR_SETPOINT, and every
\* write_reg call for it, carries a value from -60 to 60
C36_SetpointsCapped ==
    /\ \A a \in Boards :
           \A i \in 1..Len(QueueOf(write_queue, a)) :
               QueueOf(write_queue, a)[i][1] = MB_MOTOR_SETPOINT
                   => Capped(QueueOf(write_queue, a)[i][2])
    /\ \A i \in 1..Len(bus_writes) :
           bus_writes[i][2] = MB_MOTOR_SETPOINT => Capped(bus_writes[i][3])

\* setpoints of 70 by UDP and of -61 by the direct queue have been written
\* to the bus as 60 and -60
C36_Witness ==
    /\ pc = "advance"
    /\ rx = <<>>
    /\ <<1, MB_MOTOR_SETPOINT, MAX_MOTOR_SPEED>> \in Range(bus_writes)
    /\ <<2, MB_MOTOR_SETPOINT, -MAX_MOTOR_SPEED>> \in Range(bus_writes)
    /\ QueueOf(flush_snapshot, 1) = << <<MB_MOTOR_SETPOINT, MAX_MOTOR_SPEED>> >>

(***************************************************************************)
(* The direct command queue and the heartbeat                              *)
(***************************************************************************)
\* a triple is put on the direct command queue, or process_incoming_queue
\* runs
DirectStep == incoming_queue' # incoming_queue \/ pc = "direct"

\* C37: a put on the direct command queue and process_incoming_queue change
\* neither heartbeat_armed nor the time of the last valid frame; the
\* heartbeat becomes armed, and that time is refreshed, only where
\* process_incoming_packet returns with a valid frame accepted; and the
\* check of a tick that finds the heartbeat armed and timed out queues the
\* estop for every active board, whatever the direct queue has delivered
C37_DirectCommandsLeaveHeartbeat ==
    [][/\ DirectStep =>
              /\ heartbeat_armed' = heartbeat_armed
              /\ msg_age' = msg_age
              /\ valid_msg_received' = valid_msg_received
       /\ (~heartbeat_armed /\ heartbeat_armed') \/ msg_age' < msg_age
              => ValidFrameTick
       /\ HeartbeatStep /\ heartbeat_armed /\ msg_age > INCOMING_MSG_HEARTBEAT_TIMEOUT
              => pc' = "hp" /\ AppendedToAll(<<MB_ESTOP, 1>>)]_vars

\* a tick has delivered a setpoint of the direct queue and timed out all the
\* same, as the tick before it had
C37_Witness ==
    /\ pc = "hp"
    /\ tripped
    /\ QueueOf(write_queue, 1) =
           << <<MB_MOTOR_SETPOINT, MAX_MOTOR_SPEED>>, <<MB_ESTOP, 1>> >>
    /\ QueueOf(write_queue, 2) = << <<MB_ESTOP, 1>> >>

(***************************************************************************)
(* The estop of a heartbeat timeout on the bus                             *)
(***************************************************************************)
\* the heartbeat check of the tick that is ending timed out: nothing between
\* the check and the end of the tick changes what it tested
TimedOutTick == Flushed /\ heartbeat_armed /\ msg_age > INCOMING_MSG_HEARTBEAT_TIMEOUT

\* C38: in a tick whose heartbeat check timed out, the queue of every active
\* board ends with (MB_ESTOP, 1) when the flush is entered, and the flush
\* calls write_reg for MB_ESTOP of every active board once, with the value 1
C38_TimeoutEstopWrittenInTick ==
    TimedOutTick =>
        \A a \in Boards :
            /\ Len(QueueOf(flush_snapshot, a)) > 0
            /\ LastValue(QueueOf(flush_snapshot, a), MB_ESTOP) = 1
            /\ QueueOf(flush_snapshot, a)[Len(QueueOf(flush_snapshot, a))] = <<MB_ESTOP, 1>>
            /\ WritesTo(a, MB_ESTOP) = << <<a, MB_ESTOP, 1>> >>

\* a tick that timed out had taken (MB_ESTOP, 0) for board 2 from the direct
\* queue, and has written 1
C38_Witness ==
    /\ TimedOutTick
    /\ QueueOf(flush_snapshot, 2) = << <<MB_ESTOP, 0>>, <<MB_ESTOP, 1>> >>
    /\ WritesTo(2, MB_ESTOP) = << <<2, MB_ESTOP, 1>> >>

(***************************************************************************)
(* The end of a script run                                                 *)
(***************************************************************************)
\* the call of uki_send_comms that STOPPING makes at send_index
FinalStop(k) ==
    <<board_names[(k + 1) \div 2],
      IF k % 2 = 1 THEN MB_MOTOR_SETPOINT ELSE MB_MOTOR_ACCEL,
      IF k % 2 = 1 THEN 0 ELSE 100>>

\* C40: every call of uki_send_comms that the STOPPING state makes puts its
\* triple on the direct command queue, so the state has put setpoint 0 and
\* acceleration 100 for every script board when it goes back to IDLE
C40_FinalStopQueued ==
    [][piano_state = "STOPPING" /\ send_index' = send_index + 1 =>
          incoming_queue' = Append(incoming_queue, FinalStop(send_index))]_vars
=============================================================================
